---------------------------- MODULE Spec2Model ----------------------------
(***************************************************************************)
(* A model of src/src/seq.rs (alsa-rs): the EventType/payload-shape table, *)
(* the single-reader Input channel of a Seq with its InputStream, and the  *)
(* MidiEvent byte-stream coder.                                            *)
(***************************************************************************)
EXTENDS Integers, Sequences, FiniteSets, Bags, TLC

VARIABLES
    tv,        \* seq_has_data: index of the tag `v` the test loop is at
    tk,        \* seq_has_data: number of has_data predicates evaluated for v
    ti,        \* seq_has_data: the counter `i`
    tpanic,    \* seq_has_data: the test has panicked
    owner,     \* the thread that holds the Seq (Seq is Send and not Sync)
    seqOpen,   \* the Seq has not been dropped (snd_seq_close not yet called)
    inUse,     \* Seq.1, the Cell<bool> "an Input exists"
    pc,        \* per thread: position inside Input::new ("idle" | "checked")
    inputs,    \* the live Input objects, [id, thr]
    nInputs,   \* number of Input objects created so far
    streams,   \* ids of the Inputs that a live InputStream borrows
    events,    \* the live Events extracted from the Seq
    kq,        \* events queued in the kernel for this client (tags)
    ibuf,      \* the sequencer's receive buffer in user space (tags)
    nDelivered,   \* number of events the environment has delivered
    last,      \* the most recent call on the Seq, its Input or its stream,
               \* and what it returned
    meAlive,   \* the MidiEvent has not been dropped
    dev,       \* the native coder state behind MidiEvent.0
    cevents,   \* the live Events returned by MidiEvent::encode and their
               \* clones: a bag, a clone being equal to its original
    nEncodes,  \* number of encode calls so far
    lastEncode,   \* outcome of the last coder call, if it was an encode
    lastDecode,   \* outcome of the last coder call, if it was a decode
    ev,        \* an Event value in the hands of a caller (NoEv: none yet)
    nIds,      \* number of Event values made so far
    lend,      \* the caller's byte slice that a borrowed Event shows
    elast,     \* the most recent call on the Event and what it returned
    subs,      \* the sender port is subscribed to the destination port
    obuf       \* the handle's output buffer: the events not yet drained

shapeVars == <<tv, tk, ti, tpanic>>

inputVars == <<owner, seqOpen, inUse, pc, inputs, nInputs, streams,
               events, kq, ibuf, nDelivered, last>>

codecVars == <<meAlive, dev, cevents, nEncodes, lastEncode, lastDecode>>

eventVars == <<ev, nIds, lend, elast, subs, obuf>>

vars == <<shapeVars, inputVars, codecVars, eventVars>>

\* what the actions of one component leave alone
notShape == <<inputVars, codecVars, eventVars>>
notInput == <<shapeVars, codecVars, eventVars>>
notCodec == <<shapeVars, inputVars, eventVars>>
notEvent == <<shapeVars, inputVars, codecVars>>

(***************************************************************************)
(* EventType (alsa_enum!, seq.rs 1055-1119): the 59 tags, in source order. *)
(***************************************************************************)
ALL_EVENT_TYPES ==
    << "Bounce", "Chanpress", "ClientChange", "ClientExit", "ClientStart",
       "Clock", "Continue", "Control14", "Controller", "Echo", "Keypress",
       "Keysign", "None", "Nonregparam", "Note", "Noteoff", "Noteon", "Oss",
       "Pgmchange", "Pitchbend", "PortChange", "PortExit", "PortStart",
       "PortSubscribed", "PortUnsubscribed", "Qframe", "QueueSkew",
       "Regparam", "Reset", "Result", "Sensing", "SetposTick", "SetposTime",
       "Songpos", "Songsel", "Start", "Stop", "SyncPos", "Sysex", "System",
       "Tempo", "Tick", "Timesign", "TuneRequest", "Usr0", "Usr1", "Usr2",
       "Usr3", "Usr4", "Usr5", "Usr6", "Usr7", "Usr8", "Usr9", "UsrVar0",
       "UsrVar1", "UsrVar2", "UsrVar3", "UsrVar4" >>

EventType == { ALL_EVENT_TYPES[n] : n \in 1..Len(ALL_EVENT_TYPES) }

SND_SEQ_EVENT_LENGTH_FIXED == 0
SND_SEQ_EVENT_LENGTH_MASK == 12
SND_SEQ_EVENT_LENGTH_VARIABLE == 4
SND_SEQ_EVENT_LENGTH_VARUSR == 8

\* Event::get_length_flag
get_length_flag(t) ==
    CASE t = "Sysex" -> SND_SEQ_EVENT_LENGTH_VARIABLE
      [] t = "Bounce" -> SND_SEQ_EVENT_LENGTH_VARIABLE
      [] t \in {"UsrVar0", "UsrVar1", "UsrVar2", "UsrVar3", "UsrVar4"}
            -> SND_SEQ_EVENT_LENGTH_VARUSR
      [] OTHER -> SND_SEQ_EVENT_LENGTH_FIXED

\* Event::has_ext_data
has_ext_data(t) == get_length_flag(t) # SND_SEQ_EVENT_LENGTH_FIXED

\* <() as EventData>::has_data
Unit_has_data(e) == e \in {"TuneRequest", "Reset", "Sensing", "None"}

\* <[u8; 12] as EventData>::has_data
Raw12_has_data(e) ==
    e \in {"Echo", "Oss", "Usr0", "Usr1", "Usr2", "Usr3", "Usr4", "Usr5",
           "Usr6", "Usr7", "Usr8", "Usr9"}

\* a has_data for EvNote that also accepts Keysign (which EvCtrl accepts)
EvNote_has_data_wide(e) ==
    e \in {"Note", "Noteon", "Noteoff", "Keypress", "Keysign"}

\* EvNote::has_data
EvNote_has_data(e) == e \in {"Note", "Noteon", "Noteoff", "Keypress"}

\* EvCtrl::has_data
EvCtrl_has_data(e) ==
    e \in {"Controller", "Pgmchange", "Chanpress", "Pitchbend", "Control14",
           "Nonregparam", "Regparam", "Songpos", "Songsel", "Qframe",
           "Timesign", "Keysign"}

\* Addr::has_data
Addr_has_data(e) ==
    e \in {"ClientStart", "ClientExit", "ClientChange", "PortStart",
           "PortExit", "PortChange"}

\* Connect::has_data
Connect_has_data(e) == e \in {"PortSubscribed", "PortUnsubscribed"}

\* EvQueueControl::<()>::has_data
QueueUnit_has_data(e) ==
    e \in {"Start", "Continue", "Stop", "Clock", "QueueSkew"}

\* EvQueueControl::<i32>::has_data
QueueI32_has_data(e) == e \in {"Tempo"}

\* EvQueueControl::<u32>::has_data
QueueU32_has_data(e) == e \in {"SyncPos", "Tick", "SetposTick"}

\* EvQueueControl::<time::Duration>::has_data
QueueDuration_has_data(e) == e \in {"SetposTime"}

\* EvResult::has_data
EvResult_has_data(e) == e \in {"System", "Result"}

\* The twelve predicates in the order seq_has_data evaluates them.
NumShapes == 12

ShapeAccepts(k, v) ==
    CASE k = 1 -> Unit_has_data(v)
      [] k = 2 -> Raw12_has_data(v)
      [] k = 3 -> has_ext_data(v)
      [] k = 4 -> EvNote_has_data(v)
      [] k = 5 -> EvCtrl_has_data(v)
      [] k = 6 -> Addr_has_data(v)
      [] k = 7 -> Connect_has_data(v)
      [] k = 8 -> EvResult_has_data(v)
      [] k = 9 -> QueueUnit_has_data(v)
      [] k = 10 -> QueueU32_has_data(v)
      [] k = 11 -> QueueI32_has_data(v)
      [] k = 12 -> QueueDuration_has_data(v)

(***************************************************************************)
(* The test seq_has_data (seq.rs 1302-1321), one predicate per step.       *)
(***************************************************************************)
ShapeInit ==
    /\ tv = 1
    /\ tk = 0
    /\ ti = 0
    /\ tpanic = FALSE

\* one `if X::has_data(v) { i += 1; }` line
HasDataStep ==
    /\ UNCHANGED notShape
    /\ ~tpanic
    /\ tv <= Len(ALL_EVENT_TYPES)
    /\ tk < NumShapes
    /\ tk' = tk + 1
    /\ ti' = IF ShapeAccepts(tk + 1, ALL_EVENT_TYPES[tv]) THEN ti + 1 ELSE ti
    /\ UNCHANGED <<tv, tpanic>>

\* `if i != 1 { panic!(..) }` and the loop's advance to the next tag
NextTag ==
    /\ UNCHANGED notShape
    /\ ~tpanic
    /\ tk = NumShapes
    /\ tpanic' = (ti # 1)
    /\ tv' = IF ti # 1 THEN tv ELSE tv + 1
    /\ tk' = IF ti # 1 THEN tk ELSE 0
    /\ ti' = IF ti # 1 THEN ti ELSE 0

ShapeNext == HasDataStep \/ NextTag

(***************************************************************************)
(* Seq, Input and InputStream (seq.rs 44-258).                             *)
(*                                                                         *)
(* What Rust's borrow checker and Send/Sync rules allow is modelled in the *)
(* guards, read off the signatures:                                        *)
(*   Seq is Send (line 51) and, holding a raw pointer and a Cell, not      *)
(*     Sync: one thread at a time holds it, and it moves to another thread *)
(*     (or is dropped) only while nothing borrows it;                      *)
(*   Input<'a>(&'a Seq) borrows the Seq for 'a;                            *)
(*   event_input(&'b mut self) -> Event<'b> and stream(&'b mut self)       *)
(*     borrow the Input mutably for as long as the Event / the stream      *)
(*     lives;                                                              *)
(*   poll_next(&mut self) -> Event<'a> returns an Event whose lifetime is  *)
(*     the Seq borrow 'a, not the borrow of the stream or of the Input.    *)
(***************************************************************************)
NumThreads == 2
MaxInputs == 2
MaxDeliver == 2

Threads == 1..NumThreads

\* the tags the environment delivers: one fixed-length, one variable-length
DeliverTags == {"Noteon", "Sysex"}

\* a call record: the method, what it returned, and what it saw
NoCall == [op |-> "none", res |-> "none", inp |-> 0, had |-> FALSE,
           fetch |-> FALSE, count |-> 0, reads |-> 0, item |-> "none",
           head |-> "none", after |-> 0]

Call(op, res) == [NoCall EXCEPT !.op = op, !.res = res]

InputInit ==
    /\ owner = 1
    /\ seqOpen = TRUE
    /\ inUse = FALSE
    /\ pc = [t \in Threads |-> "idle"]
    /\ inputs = {}
    /\ nInputs = 0
    /\ streams = {}
    /\ events = {}
    /\ kq = << >>
    /\ ibuf = << >>
    /\ nDelivered = 0
    /\ last = NoCall

InputIds == { i.id : i \in inputs }

\* the name of the next Event taken from the Seq: the first one that no
\* live Event bears
NewEvent ==
    CHOOSE n \in 1..(Cardinality(events) + 1) :
        /\ n \notin { e.id : e \in events }
        /\ \A m \in 1..(n - 1) : m \in { e.id : e \in events }

\* as if Seq were Sync: any thread may call methods on the shared handle
CanUse_sync(t) == seqOpen

\* the thread t can call methods of the Seq: it holds it (Send, not Sync)
CanUse(t) == seqOpen /\ owner = t

\* Something borrowed from the Seq for 'a is alive: an Input, or an Event<'a>.
SeqBorrowed ==
    \/ inputs # {}
    \/ \E e \in events : e.lt # "static"

\* The Input i is mutably borrowed: by its stream, or by an Event<'b>.
InputBorrowed(i) ==
    \/ i \in streams
    \/ \E e \in events : e.src = i /\ e.lt = "b"

\* The receive buffer is overwritten or freed: every Event whose slice
\* points into it now reads memory that is no longer its own.
Invalidate(evs) ==
    { [e EXCEPT !.stale = e.stale \/ (e.buf = "borrowed")] : e \in evs }

\* a check that never panics
check_has_input_off(flag) == FALSE

\* Seq::check_has_input: TRUE when it panics
check_has_input(flag) == flag

\* a Drop for Input that leaves the flag set
Input_drop_keep == TRUE

\* Drop for Input: the value it stores in the flag
Input_drop == FALSE

\* an extract that leaves the fixed payload behind
extract_bare(t, n, i, life, len, data) ==
    [id |-> n, src |-> i, lt |-> life, tag |-> t,
     buf |-> IF has_ext_data(t) THEN "borrowed" ELSE "none",
     len |-> IF has_ext_data(t) THEN len ELSE 0,
     data |-> << >>, stale |-> FALSE]

\* an extract whose slice is one byte short
extract_short(t, n, i, life, len, data) ==
    [id |-> n, src |-> i, lt |-> life, tag |-> t,
     buf |-> IF has_ext_data(t) THEN "borrowed" ELSE "none",
     len |-> IF has_ext_data(t) /\ len > 0 THEN len - 1 ELSE 0,
     data |-> data, stale |-> FALSE]

\* Event::extract: the Event (number n, from Input i or from the coder,
\* i = 0, with lifetime `life`) built from a native record of tag t; for a
\* variable-length tag its buffer is a borrowed slice of the record's
\* (ptr, len), otherwise it has none and `data` is the fixed payload
extract(t, n, i, life, len, data) ==
    [id |-> n, src |-> i, lt |-> life, tag |-> t,
     buf |-> IF has_ext_data(t) THEN "borrowed" ELSE "none",
     len |-> IF has_ext_data(t) THEN len ELSE 0,
     data |-> data, stale |-> FALSE]

\* an into_owned that makes an empty Vec instead of a copy
into_owned_empty(e, mem) ==
    [e EXCEPT !.lt = "static",
              !.buf = IF e.buf = "none" THEN "none" ELSE "owned",
              !.data = IF e.buf = "borrowed" THEN << >> ELSE e.data]

\* Event::into_owned: a borrowed slice, which shows the bytes `mem` of the
\* lender, becomes an owned copy of them
into_owned(e, mem) ==
    [e EXCEPT !.lt = "static",
              !.buf = IF e.buf = "none" THEN "none" ELSE "owned",
              !.data = IF e.buf = "borrowed"
                       THEN [k \in 1..e.len |->
                               IF k <= Len(mem) THEN mem[k] ELSE 0]
                       ELSE e.data]

(***************************************************************************)
(* The native calls on the receive side, as the code uses them.  Their     *)
(* code is not part of seq.rs: they are written after the design's         *)
(* pending_count and blocking_read.                                        *)
(***************************************************************************)
\* a method that repeats a transport call that failed, until it succeeds
transport_call_retried(ok) == TRUE

\* every method makes its transport call once, in `acheck!(..)`, and has no
\* loop around it: the call's outcome is the outcome of the first attempt
transport_call(ok) == ok

\* snd_seq_event_input_pending: the number of events in the receive buffer;
\* with fetch set and the buffer empty it first reads what the kernel holds
\* into the buffer, which may fail (ok = FALSE).
snd_seq_event_input_pending(b, q, fetch, ok) ==
    IF b = << >> /\ fetch /\ q # << >>
    THEN IF ok THEN [ret |-> Len(q), ibuf |-> q, kq |-> << >>, refilled |-> TRUE]
               ELSE [ret |-> -1, ibuf |-> b, kq |-> q, refilled |-> FALSE]
    ELSE [ret |-> Len(b), ibuf |-> b, kq |-> q, refilled |-> FALSE]

\* snd_seq_event_input blocks while neither the buffer nor the kernel holds
\* an event
CanRead(b, q) == b # << >> \/ q # << >>

\* snd_seq_event_input: takes the first event of the receive buffer, after
\* reading the kernel's events into the buffer when it is empty.
snd_seq_event_input(b, q, ok) ==
    IF b # << >>
    THEN [ret |-> 0, ev |-> Head(b), ibuf |-> Tail(b), kq |-> q,
          refilled |-> FALSE]
    ELSE IF ok
         THEN [ret |-> 0, ev |-> Head(q), ibuf |-> Tail(q), kq |-> << >>,
               refilled |-> TRUE]
         ELSE [ret |-> -1, ev |-> "none", ibuf |-> b, kq |-> q,
               refilled |-> FALSE]

\* another client sends an event to this client's port
Deliver(tag) ==
    /\ UNCHANGED notInput
    /\ last' = Call("deliver", "ok")
    /\ seqOpen
    /\ nDelivered < MaxDeliver
    /\ kq' = Append(kq, [type |-> tag, len |-> 0, data |-> << >>])
    /\ nDelivered' = nDelivered + 1
    /\ UNCHANGED <<owner, inUse, pc, inputs, nInputs, streams,
                   events, ibuf, seqOpen>>

(***************************************************************************)
(* Seq::input = Input::new, in its two steps.                              *)
(***************************************************************************)
\* s.check_has_input()
CheckHasInput(t) ==
    /\ UNCHANGED notInput
    /\ CanUse(t)
    /\ pc[t] = "idle"
    /\ IF check_has_input(inUse)
       THEN /\ last' = [Call("input", "panic") EXCEPT
                           !.had = inputs # {},
                           !.after = Cardinality(inputs)]
            /\ pc' = pc
       ELSE /\ nInputs < MaxInputs
            /\ last' = [Call("input", "checking") EXCEPT
                           !.had = inputs # {},
                           !.after = Cardinality(inputs)]
            /\ pc' = [pc EXCEPT ![t] = "checked"]
    /\ UNCHANGED <<owner, seqOpen, inUse, inputs, nInputs, streams,
                   events, kq, ibuf, nDelivered>>

\* s.1.set(true); Input(s)
SetInUse(t) ==
    /\ UNCHANGED notInput
    /\ pc[t] = "checked"
    /\ inUse' = TRUE
    /\ inputs' = inputs \cup {[id |-> nInputs + 1, thr |-> t]}
    /\ nInputs' = nInputs + 1
    /\ pc' = [pc EXCEPT ![t] = "idle"]
    /\ last' = [Call("input", "ok") EXCEPT
                   !.inp = nInputs + 1,
                   !.had = inputs # {},
                   !.after = Cardinality(inputs')]
    /\ UNCHANGED <<owner, seqOpen, streams, events, kq, ibuf,
                   nDelivered>>

\* Drop for Input
DropInput(i) ==
    /\ UNCHANGED notInput
    /\ last' = Call("drop_input", "ok")
    /\ i \in inputs
    /\ pc[i.thr] = "idle"
    /\ ~InputBorrowed(i.id)
    /\ inUse' = Input_drop
    /\ inputs' = inputs \ {i}
    /\ UNCHANGED <<owner, seqOpen, pc, nInputs, streams, events, kq,
                   ibuf, nDelivered>>

(***************************************************************************)
(* The methods of Input.                                                   *)
(***************************************************************************)
\* Input::event_input (through event_input_unsafe)
EventInput(i, ok) ==
    /\ UNCHANGED notInput
    /\ i \in inputs
    /\ pc[i.thr] = "idle"
    /\ ~InputBorrowed(i.id)
    /\ CanRead(ibuf, kq)
    /\ LET r == snd_seq_event_input(ibuf, kq, transport_call(ok)) IN
       /\ ibuf' = r.ibuf
       /\ kq' = r.kq
       /\ IF r.ret < 0
          THEN /\ UNCHANGED events
               /\ last' = [Call("event_input", "Err") EXCEPT !.inp = i.id]
          ELSE /\ events' = (IF r.refilled THEN Invalidate(events) ELSE events)
                            \cup {extract(r.ev.type, NewEvent, i.id, "b",
                                         r.ev.len, r.ev.data)}
               /\ last' = [Call("event_input", "Ok") EXCEPT
                              !.inp = i.id, !.item = r.ev.type]
    /\ UNCHANGED <<owner, seqOpen, inUse, pc, inputs, nInputs,
                   streams, nDelivered>>

\* Input::event_input_pending
EventInputPending(i, fetch, ok) ==
    /\ UNCHANGED notInput
    /\ i \in inputs
    /\ pc[i.thr] = "idle"
    /\ ~InputBorrowed(i.id)
    /\ LET p == snd_seq_event_input_pending(ibuf, kq, fetch,
                                            transport_call(ok))
       IN
       /\ last' = Call("event_input_pending",
                       IF p.ret < 0 THEN "Err" ELSE "ok")
       /\ ibuf' = p.ibuf
       /\ kq' = p.kq
       /\ events' = IF p.refilled THEN Invalidate(events) ELSE events
    /\ UNCHANGED <<owner, seqOpen, inUse, pc, inputs, nInputs,
                   streams, nDelivered>>

\* Input::set_input_buffer_size: the native call drops the pending input and
\* replaces the receive buffer, or fails and leaves them
SetInputBufferSize(i, ok) ==
    /\ UNCHANGED notInput
    /\ i \in inputs
    /\ pc[i.thr] = "idle"
    /\ ~InputBorrowed(i.id)
    /\ IF transport_call(ok)
       THEN /\ last' = Call("set_input_buffer_size", "ok")
            /\ ibuf' = << >>
            /\ kq' = << >>
            /\ events' = Invalidate(events)
       ELSE /\ last' = Call("set_input_buffer_size", "Err")
            /\ UNCHANGED <<ibuf, kq, events>>
    /\ UNCHANGED <<owner, seqOpen, inUse, pc, inputs, nInputs,
                   streams, nDelivered>>

\* Input::stream
Stream(i) ==
    /\ UNCHANGED notInput
    /\ i \in inputs
    /\ pc[i.thr] = "idle"
    /\ ~InputBorrowed(i.id)
    /\ streams' = streams \cup {i.id}
    /\ last' = [Call("stream", "ok") EXCEPT !.inp = i.id]
    /\ UNCHANGED <<owner, seqOpen, inUse, pc, inputs, nInputs,
                   events, kq, ibuf, nDelivered>>

\* a stream that owns its Input and takes it along when it goes
InputStream_drop_owning(ins, i) == { x \in ins : x.id # i }

\* InputStream(&'b mut Input<'a>): the stream holds a reference, so the
\* Inputs alive after the stream of Input i is gone are those alive before
InputStream_drop(ins, i) == ins

\* the InputStream goes out of scope (it has no Drop impl: only the mutable
\* borrow of the Input ends)
DropStream(i) ==
    /\ UNCHANGED notInput
    /\ last' = Call("drop_stream", "ok")
    /\ i \in streams
    /\ streams' = streams \ {i}
    /\ inputs' = InputStream_drop(inputs, i)
    /\ UNCHANGED <<owner, seqOpen, inUse, pc, nInputs, events, kq,
                   ibuf, nDelivered>>

\* InputStream::poll_next, line 251: the argument of event_input_pending
poll_fetch == TRUE

\* a poll that reports not-ready unless two or more events are pending
poll_is_pending_lt2(n) == n < 2

\* InputStream::poll_next, line 251: `event_input_pending(true)? == 0`
poll_is_pending(n) == n = 0

\* the body of InputStream::poll_next: everything but the position of the
\* thread that called it
poll_next(i, ok1, ok2) ==
    /\ UNCHANGED notInput
    /\ i \in inputs
    /\ i.id \in streams
    /\ pc[i.thr] = "idle"
    /\ LET p == snd_seq_event_input_pending(ibuf, kq, poll_fetch,
                                            transport_call(ok1))
           ev1 == IF p.refilled THEN Invalidate(events) ELSE events
       IN
       IF p.ret < 0
       THEN /\ last' = [Call("poll_next", "Err") EXCEPT
                           !.inp = i.id, !.fetch = poll_fetch,
                           !.count = p.ret, !.after = Len(p.ibuf)]
            /\ UNCHANGED <<ibuf, kq, events>>
       ELSE IF poll_is_pending(p.ret)
       THEN /\ last' = [Call("poll_next", "Pending") EXCEPT
                           !.inp = i.id, !.fetch = poll_fetch,
                           !.count = p.ret, !.after = Len(p.ibuf)]
            /\ ibuf' = p.ibuf
            /\ kq' = p.kq
            /\ events' = ev1
       ELSE /\ CanRead(p.ibuf, p.kq)
            /\ LET r == snd_seq_event_input(p.ibuf, p.kq,
                                            transport_call(ok2))
               IN
               /\ ibuf' = r.ibuf
               /\ kq' = r.kq
               /\ IF r.ret < 0
                  THEN /\ last' = [Call("poll_next", "Err") EXCEPT
                                      !.inp = i.id, !.fetch = poll_fetch,
                                      !.count = p.ret, !.reads = 1,
                                      !.after = Len(r.ibuf)]
                       /\ events' = ev1
                  ELSE /\ last' = [Call("poll_next", "Ready") EXCEPT
                                      !.inp = i.id, !.fetch = poll_fetch,
                                      !.count = p.ret, !.reads = 1,
                                      !.item = r.ev.type,
                                      !.head = Head(p.ibuf).type,
                                      !.after = Len(r.ibuf)]
                       /\ events' =
                            (IF r.refilled THEN Invalidate(ev1) ELSE ev1)
                            \cup {extract(r.ev.type, NewEvent, i.id, "a",
                                         r.ev.len, r.ev.data)}
    /\ UNCHANGED <<owner, seqOpen, inUse, inputs, nInputs,
                   streams, nDelivered>>

\* InputStream::poll_next, called by a thread that goes on afterwards
PollNext(i, ok1, ok2) ==
    /\ poll_next(i, ok1, ok2)
    /\ UNCHANGED pc

\* InputStream::poll_next, lines 251-252: `Ok(Async::Pending)` is returned
\* without a use of cx, so that no waker is registered for the task
poll_registers_waker == FALSE

\* where a task is after its poll returned: it goes on with a result, it
\* waits for its waker after a not-ready, or it is parked with no waker
AfterPoll(res) ==
    IF res # "Pending" THEN "idle"
    ELSE IF poll_registers_waker THEN "waiting" ELSE "parked"

\* the executor polls the stream in the task of thread i.thr, which is
\* runnable; after a not-ready the executor does not poll the task again
\* until the task's waker is called
TaskPoll(i) ==
    /\ poll_next(i, TRUE, TRUE)
    /\ pc' = [pc EXCEPT ![i.thr] = AfterPoll(last'.res)]

(***************************************************************************)
(* Events and the Seq itself.                                              *)
(***************************************************************************)
\* an Event goes out of scope
DropEvent(e) ==
    /\ UNCHANGED notInput
    /\ last' = Call("drop_event", "ok")
    /\ e \in events
    /\ events' = events \ {e}
    /\ UNCHANGED <<owner, seqOpen, inUse, pc, inputs, nInputs,
                   streams, kq, ibuf, nDelivered>>

\* Event::into_owned on an Event that came from the Seq
IntoOwned(e) ==
    /\ UNCHANGED notInput
    /\ last' = Call("into_owned", "ok")
    /\ e \in events
    /\ e.lt # "static"
    /\ events' = (events \ {e}) \cup {into_owned(e, << >>)}
    /\ UNCHANGED <<owner, seqOpen, inUse, pc, inputs, nInputs,
                   streams, kq, ibuf, nDelivered>>

\* the Seq is moved to another thread (Send)
SendSeq(t, u) ==
    /\ UNCHANGED notInput
    /\ last' = Call("send", "ok")
    /\ CanUse(t)
    /\ u # t
    /\ pc[t] = "idle"
    /\ ~SeqBorrowed
    /\ owner' = u
    /\ UNCHANGED <<seqOpen, inUse, pc, inputs, nInputs, streams,
                   events, kq, ibuf, nDelivered>>

\* Drop for Seq: snd_seq_close frees the receive buffer
DropSeq(t) ==
    /\ UNCHANGED notInput
    /\ last' = Call("drop_seq", "ok")
    /\ CanUse(t)
    /\ pc[t] = "idle"
    /\ ~SeqBorrowed
    /\ seqOpen' = FALSE
    /\ ibuf' = << >>
    /\ kq' = << >>
    /\ events' = Invalidate(events)
    /\ UNCHANGED <<owner, inUse, pc, inputs, nInputs, streams,
                   nDelivered>>

InputNext ==
    \/ \E tag \in DeliverTags : Deliver(tag)
    \/ \E t \in Threads : CheckHasInput(t)
    \/ \E t \in Threads : SetInUse(t)
    \/ \E i \in inputs : DropInput(i)
    \/ \E i \in inputs, ok \in BOOLEAN : EventInput(i, ok)
    \/ \E i \in inputs, fetch \in BOOLEAN, ok \in BOOLEAN :
          EventInputPending(i, fetch, ok)
    \/ \E i \in inputs, ok \in BOOLEAN : SetInputBufferSize(i, ok)
    \/ \E i \in inputs : Stream(i)
    \/ \E i \in streams : DropStream(i)
    \/ \E i \in inputs, ok1 \in BOOLEAN, ok2 \in BOOLEAN : PollNext(i, ok1, ok2)
    \/ \E e \in events : DropEvent(e)
    \/ \E e \in events : IntoOwned(e)
    \/ \E t \in Threads, u \in Threads : SendSeq(t, u)
    \/ \E t \in Threads : DropSeq(t)

(***************************************************************************)
(* MidiEvent, the byte-stream coder (seq.rs 1156-1198).                    *)
(*                                                                         *)
(* encode<'a>(&'a mut self, ..) -> Event<'a> borrows the coder mutably for *)
(* as long as the returned Event (or a clone of it) lives; decode,         *)
(* resize_buffer and enable_running_status take &self, and Drop needs the  *)
(* coder unborrowed.                                                       *)
(***************************************************************************)
MinBuf == 2
MaxBuf == 3
MaxBytes == 3
MaxEncodes == 2
MaxLive == 2

\* MIDI bytes of the model: a data byte, note-on on channel 0, start and
\* end of system-exclusive
SYSEX == 240
SYSEX_END == 247
NOTEON_CH0 == 144
Bytes == {1, NOTEON_CH0, SYSEX, SYSEX_END}

BufSizes == MinBuf..MaxBuf

ByteSeqs == UNION { [1..n -> Bytes] : n \in 1..MaxBytes }

\* a complete system-exclusive message: 0xF0, data bytes, 0xF7
IsSysexMessage(b) ==
    /\ Len(b) >= 2
    /\ b[1] = SYSEX
    /\ b[Len(b)] = SYSEX_END
    /\ \A k \in 2..(Len(b) - 1) : b[k] < 128

\* a complete note-on message: status byte and two data bytes
IsNoteOnMessage(b) ==
    /\ Len(b) = 3
    /\ b[1] = NOTEON_CH0
    /\ b[2] < 128
    /\ b[3] < 128

\* the complete messages among the byte sequences
Messages == { b \in ByteSeqs : IsSysexMessage(b) \/ IsNoteOnMessage(b) }

NoEvent == [type |-> "None", len |-> 0, data |-> << >>]

NoEncode == [res |-> "none", bytes |-> << >>, bufsize |-> 0, fresh |-> FALSE,
             consumed |-> 0,
             complete |-> FALSE, some |-> FALSE, tag |-> "None",
             ext |-> << >>, data |-> << >>]
NoDecode == [res |-> "none", ret |-> 0, out |-> << >>]

\* snd_midi_event_new(bufsize): the coder's native state
snd_midi_event_new(n) ==
    [buf |-> [k \in 1..n |-> 0], bufsize |-> n, read |-> 0, qlen |-> 0,
     type |-> "INVALID", lastcmd |-> 255, nostat |-> FALSE]

\* MidiEvent::new(MinBuf); resize_buffer gives the other sizes
CodecInit ==
    /\ meAlive = TRUE
    /\ dev = snd_midi_event_new(MinBuf)
    /\ cevents = EmptyBag
    /\ nEncodes = 0
    /\ lastEncode = NoEncode
    /\ lastDecode = NoDecode

\* as if encode took &self: the returned Event would not borrow the coder
CodecBorrowed_shared == FALSE

\* an Event<'a> returned by encode (or a clone of one) is alive
CodecBorrowed == \E e \in BagToSet(cevents) : e.lt = "a"

\* the coder is operated on or freed: an Event that borrows it is disturbed
DisturbOne(e) == [e EXCEPT !.stale = e.stale \/ (e.lt = "a")]

RECURSIVE BagOfSet(_, _, _)
BagOfSet(S, evs, acc) ==
    IF S = {} THEN acc
    ELSE LET e == CHOOSE x \in S : TRUE
             one == [x \in {DisturbOne(e)} |-> evs[e]]
         IN BagOfSet(S \ {e}, evs, acc (+) one)

Disturb(evs) == BagOfSet(BagToSet(evs), evs, EmptyBag)

\* a bag holding the Event e once
One(e) == SetToBag({e})

(***************************************************************************)
(* The native coder, byte by byte.  Its code is not part of seq.rs: it is  *)
(* written after the design (a prefix of the bytes is consumed, an Event   *)
(* comes once a message is complete, BufferTooSmall when the buffer is     *)
(* full) and after what seq_encode_sysex observes.                         *)
(***************************************************************************)
\* status_event[type].qlen
QLen(type) ==
    CASE type = "NOTEON" -> 2
      [] type = "SYSEX" -> 1
      [] type = "SYSEX_END" -> 0
      [] OTHER -> -1

StatusType(c) ==
    CASE c = SYSEX -> "SYSEX"
      [] c = SYSEX_END -> "SYSEX_END"
      [] OTHER -> "NOTEON"

\* first half of snd_midi_event_encode_byte: the byte enters the buffer
StoreByte(d, c) ==
    IF c >= 128 /\ (c # SYSEX_END \/ d.type # "SYSEX")
    THEN [d EXCEPT !.buf[1] = c, !.type = StatusType(c), !.read = 1,
                   !.qlen = QLen(StatusType(c))]
    ELSE IF d.qlen > 0
         THEN [d EXCEPT !.buf[d.read + 1] = c, !.read = d.read + 1,
                        !.qlen = IF d.type = "SYSEX" THEN d.qlen
                                 ELSE d.qlen - 1]
         ELSE [d EXCEPT !.buf[2] = c, !.qlen = QLen(d.type) - 1, !.read = 2]

\* the byte c continues the command being accumulated
Continues(d, c) == ~(c >= 128 /\ (c # SYSEX_END \/ d.type # "SYSEX"))

ENOMEM == 12

\* snd_midi_event_encode_byte: [dev, rc, ev]; a byte for which the buffer
\* has no room left is refused
snd_midi_event_encode_byte(d0, c) ==
    LET d == StoreByte(d0, c) IN
    IF Continues(d0, c) /\ d0.qlen > 0 /\ d0.read >= d0.bufsize
    THEN [dev |-> d0, rc |-> -ENOMEM, ev |-> NoEvent]
    ELSE IF d.qlen = 0
    THEN [dev |-> IF d.type \in {"SYSEX", "SYSEX_END"}
                  THEN [d EXCEPT !.type = "INVALID"] ELSE d,
          rc |-> 1,
          ev |-> IF d.type = "NOTEON"
                 THEN [type |-> "Noteon", len |-> 0,
                       data |-> <<d.buf[1] % 16, d.buf[2], d.buf[3]>>]
                 ELSE NoEvent]
    ELSE IF d.type = "SYSEX" /\ c = SYSEX_END
    THEN [dev |-> [d EXCEPT !.read = 0, !.type = "INVALID"],
          rc |-> 1,
          ev |-> [type |-> "Sysex", len |-> d.read, data |-> << >>]]
    ELSE [dev |-> d, rc |-> 0, ev |-> NoEvent]

\* snd_midi_event_encode: feeds bytes until one completes a message or is
\* refused; [dev, result (bytes consumed, or the error), rc, ev]
RECURSIVE snd_midi_event_encode(_, _, _)
snd_midi_event_encode(d, b, k) ==
    IF k > Len(b)
    THEN [dev |-> d, result |-> Len(b), rc |-> 0, ev |-> NoEvent]
    ELSE LET s == snd_midi_event_encode_byte(d, b[k]) IN
         IF s.rc < 0
         THEN [dev |-> s.dev, result |-> s.rc, rc |-> s.rc, ev |-> NoEvent]
         ELSE IF s.rc > 0
         THEN [dev |-> s.dev, result |-> k, rc |-> s.rc, ev |-> s.ev]
         ELSE snd_midi_event_encode(s.dev, b, k + 1)

\* snd_midi_event_decode of a Sysex record whose (len, ptr) shows `view`,
\* into an output buffer of cap bytes: [ret, out]
snd_midi_event_decode_sysex(view, cap) ==
    IF cap < Len(view) THEN [ret |-> -ENOMEM, out |-> << >>]
    ELSE [ret |-> Len(view), out |-> view]

(***************************************************************************)
(* Events of the coder.                                                    *)
(***************************************************************************)
\* the bytes an Event's slice shows: an owned Vec shows its own bytes, a
\* borrowed slice shows what the lender's buffer holds now
View(e, mem) ==
    IF e.buf = "owned" THEN e.data
    ELSE IF e.buf = "borrowed"
         THEN [k \in 1..e.len |-> IF k <= Len(mem) THEN mem[k] ELSE 0]
         ELSE << >>

\* Event::get_ext: [some, bytes]
get_ext(e, mem) ==
    IF has_ext_data(e.tag)
    THEN [some |-> TRUE, bytes |-> View(e, mem)]
    ELSE [some |-> FALSE, bytes |-> << >>]

\* a record that keeps only what the native coder wrote
Zeroed_short(w) == w

\* the data union of the record that encode zeroes (line 1189) and in which
\* the native coder writes the fields w of a note: channel, note, velocity,
\* then off_velocity and duration
Zeroed(w) ==
    IF w = << >> THEN << >>
    ELSE [k \in 1..5 |-> IF k <= Len(w) THEN w[k] ELSE 0]

\* an encode that wraps every native record, the empty one too
encode_is_none_never(type) == FALSE

\* MidiEvent::encode, line 1191: `ev._type == SND_SEQ_EVENT_NONE`
encode_is_none(type) == type = "None"

\* an encode that takes every return value of the native coder for a count
encode_failed_never(r) == FALSE

\* MidiEvent::encode, line 1190: `try!(acheck!(snd_midi_event_encode(..)))`
\* returns the error for a negative return value
encode_failed(r) == r < 0

\* MidiEvent::encode
Encode(b) ==
    /\ UNCHANGED notCodec
    /\ meAlive
    /\ ~CodecBorrowed
    /\ BagCardinality(cevents) < MaxLive
    /\ LET r == snd_midi_event_encode(dev, b, 1)
           e == extract(r.ev.type, 0, 0, "a", r.ev.len, Zeroed(r.ev.data))
           none == encode_is_none(r.ev.type)
       IN
       /\ dev' = r.dev
       /\ nEncodes' = nEncodes + 1
       /\ IF encode_failed(r.result)
          THEN /\ cevents' = Disturb(cevents)
               /\ lastEncode' =
                    [NoEncode EXCEPT !.res = "Err", !.bytes = b,
                                     !.bufsize = dev.bufsize,
                                     !.fresh = dev.read = 0]
          ELSE /\ cevents' = IF none THEN Disturb(cevents)
                             ELSE Disturb(cevents) (+) One(e)
               /\ lastEncode' =
                    [res |-> "Ok", bytes |-> b, bufsize |-> dev.bufsize,
                     fresh |-> dev.read = 0,
                     consumed |-> r.result, complete |-> r.rc > 0,
                     some |-> ~none,
                     tag |-> IF none THEN "None" ELSE e.tag,
                     ext |-> IF none THEN << >>
                             ELSE get_ext(e, r.dev.buf).bytes,
                     data |-> IF none THEN << >> ELSE e.data]
    /\ lastDecode' = NoDecode
    /\ UNCHANGED meAlive

\* MidiEvent::decode of a fresh Event::new_ext(Sysex, p) into a buffer of
\* cap bytes
Decode(p, cap) ==
    /\ UNCHANGED notCodec
    /\ meAlive
    /\ ~CodecBorrowed
    /\ LET r == snd_midi_event_decode_sysex(p, cap) IN
       lastDecode' = [res |-> IF r.ret < 0 THEN "Err" ELSE "Ok",
                      ret |-> r.ret, out |-> r.out]
    /\ dev' = [dev EXCEPT !.lastcmd = 255]
    /\ cevents' = Disturb(cevents)
    /\ lastEncode' = NoEncode
    /\ UNCHANGED <<meAlive, nEncodes>>

\* MidiEvent::resize_buffer: a new size replaces the buffer and resets the
\* encoder; the same size changes nothing
ResizeBuffer(n) ==
    /\ UNCHANGED notCodec
    /\ meAlive
    /\ ~CodecBorrowed
    /\ dev' = IF n = dev.bufsize THEN dev
              ELSE [dev EXCEPT !.buf = [k \in 1..n |-> 0], !.bufsize = n,
                               !.read = 0, !.type = "INVALID"]
    /\ cevents' = Disturb(cevents)
    /\ UNCHANGED <<meAlive, nEncodes, lastEncode, lastDecode>>

\* an enable_running_status that passes its argument on as it is
no_status_unswitched(enable) == IF enable THEN 1 ELSE 0

\* line 1176: the `on` argument of snd_midi_event_no_status,
\* `if enable {0} else {1}`
no_status(enable) == IF enable THEN 0 ELSE 1

\* MidiEvent::enable_running_status: snd_midi_event_no_status(!enable)
EnableRunningStatus(enable) ==
    /\ UNCHANGED notCodec
    /\ meAlive
    /\ ~CodecBorrowed
    /\ dev' = [dev EXCEPT !.nostat = no_status(enable) # 0]
    /\ cevents' = Disturb(cevents)
    /\ UNCHANGED <<meAlive, nEncodes, lastEncode, lastDecode>>

\* Drop for MidiEvent: snd_midi_event_free
DropCodec ==
    /\ UNCHANGED notCodec
    /\ meAlive
    /\ ~CodecBorrowed
    /\ meAlive' = FALSE
    /\ cevents' = Disturb(cevents)
    /\ UNCHANGED <<dev, nEncodes, lastEncode, lastDecode>>

\* Clone for Event
CloneEvent(e) ==
    /\ UNCHANGED notCodec
    /\ BagIn(e, cevents)
    /\ BagCardinality(cevents) < MaxLive
    /\ cevents' = cevents (+) One(e)
    /\ UNCHANGED <<meAlive, dev, nEncodes, lastEncode, lastDecode>>

\* Event::into_owned on an Event of the coder
CodecIntoOwned(e) ==
    /\ UNCHANGED notCodec
    /\ BagIn(e, cevents)
    /\ e.lt # "static"
    /\ cevents' = (cevents (-) One(e)) (+) One(into_owned(e, dev.buf))
    /\ UNCHANGED <<meAlive, dev, nEncodes, lastEncode, lastDecode>>

\* an Event of the coder goes out of scope
CodecDropEvent(e) ==
    /\ UNCHANGED notCodec
    /\ BagIn(e, cevents)
    /\ cevents' = cevents (-) One(e)
    /\ UNCHANGED <<meAlive, dev, nEncodes, lastEncode, lastDecode>>

\* a caller's loop that feeds all of b to the coder, encode call by encode
\* call, dropping the Events: the coder state it leaves
RECURSIVE Feed(_, _)
Feed(d, b) ==
    IF b = << >> THEN d
    ELSE LET r == snd_midi_event_encode(d, b, 1) IN
         IF r.result < 0 THEN r.dev
         ELSE Feed(r.dev, SubSeq(b, r.result + 1, Len(b)))

\* a coder that has been fed some bytes already
FedInit ==
    /\ meAlive = TRUE
    /\ dev \in { Feed(snd_midi_event_new(n), b) :
                    n \in BufSizes, b \in ByteSeqs \cup {<< >>} }
    /\ cevents = EmptyBag
    /\ nEncodes = 0
    /\ lastEncode = NoEncode
    /\ lastDecode = NoDecode

\* one encode call of any bytes, and the release of its Event
EncodeNext ==
    \/ \E b \in ByteSeqs : nEncodes = 0 /\ Encode(b)
    \/ \E e \in BagToSet(cevents) : CodecDropEvent(e)

CodecNext ==
    \/ \E b \in Messages : nEncodes < MaxEncodes /\ Encode(b)
    \/ \E b \in Messages, cap \in 0..MaxBytes :
          IsSysexMessage(b) /\ Decode(b, cap)
    \/ \E n \in BufSizes : ResizeBuffer(n)
    \/ \E enable \in BOOLEAN : EnableRunningStatus(enable)
    \/ DropCodec
    \/ \E e \in BagToSet(cevents) : CloneEvent(e)
    \/ \E e \in BagToSet(cevents) : CodecIntoOwned(e)
    \/ \E e \in BagToSet(cevents) : CodecDropEvent(e)

(***************************************************************************)
(* Event values (seq.rs 566-732): Event(snd_seq_event_t, EventType,        *)
(* Option<Cow<[u8]>>).  An Event value has the fields Event::extract       *)
(* gives it (tag = self.1; buf, len, data = self.2 and the fixed payload)  *)
(* and `rec`, the part of the native record self.0 that the methods touch. *)
(* A pointer is the number of the storage it points at: 0 is null, 1 the   *)
(* caller's slice, n + 1 the Vec owned by the Event value number n.        *)
(***************************************************************************)
MaxIds == 3
MaxExt == 2

\* seq_has_data, lines 1309 and 1310: the places of has_ext_data and of
\* EvNote among the twelve shape predicates
ExtShape == 3
NoteShape == 4

\* the eleven types that implement EventData
DataShapes == (1..NumShapes) \ {ExtShape}

\* the byte sequences a caller passes to new_ext
ExtPayloads == UNION { [1..n -> {1, 2}] : n \in 0..MaxExt }

\* EvNote values: channel, note, velocity, off_velocity, duration
Notes ==
    { <<0, 64, 100, 64, 100>>, <<1, 1, 1, 0, 0>> }

NullPtr == 0
LenderPtr == 1

\* mem::zeroed() as snd_seq_event_t
ZeroRec == [type |-> "None", flags |-> 0, tag |-> 0, queue |-> 0,
            time |-> <<0, 0>>, source |-> <<0, 0>>, dest |-> <<0, 0>>,
            len |-> 0, ptr |-> NullPtr]

NoEv == [id |-> 0, src |-> 0, lt |-> "static", tag |-> "None",
         buf |-> "none", len |-> 0, data |-> << >>, stale |-> FALSE,
         rec |-> ZeroRec]

NoECall == [op |-> "none", res |-> "none", tag |-> "None", accepts |-> FALSE,
            debug |-> FALSE, shape |-> 0, some |-> FALSE, bytes |-> << >>,
            len |-> 0, ptr |-> 0, syncs |-> 0, rel |-> FALSE, arg |-> << >>]

ECall(op, res) == [NoECall EXCEPT !.op = op, !.res = res]

EventInit ==
    /\ ev = NoEv
    /\ nIds = 0
    /\ lend = << >>
    /\ elast = NoECall
    /\ subs = FALSE
    /\ obuf = << >>

\* bit k of the byte x, and the bitwise operations on bytes
Bit(x, k) == (x \div (2 ^ k)) % 2

RECURSIVE BitAndFrom(_, _, _)
BitAndFrom(x, y, k) ==
    IF k > 7 THEN 0
    ELSE Bit(x, k) * Bit(y, k) * (2 ^ k) + BitAndFrom(x, y, k + 1)

BitAnd(x, y) == BitAndFrom(x, y, 0)
BitNot(x) == 255 - x
BitOr(x, y) == x + y - BitAnd(x, y)

U8 == 2 ^ 8

\* `x as c_uint` of a u64, a number of seconds written as its two 32-bit
\* words <<high, low>>: its low word
AsCUint(x) == x[2]

\* `x as u64` of a c_uint
AsU64(w) == <<0, w>>

\* seq_has_data, lines 1307-1318: the places of the other payload shapes
\* among the twelve shape predicates
UnitShape == 1
RawShape == 2
CtrlShape == 5
AddrShape == 6
ConnectShape == 7
ResultShape == 8
QueueUnitShape == 9
QueueU32Shape == 10
QueueI32Shape == 11
QueueTimeShape == 12

\* the data union of a record, as far as the payload shapes tell its parts
\* apart: the four bytes at offsets 0 to 3 and the 32-bit words at offsets
\* 4 and 8.  A union nothing was written to is zeroed.
ZeroUnion == <<0, 0, 0, 0, 0, 0>>

Union(e) ==
    IF Len(e.data) \in {5, 6}
    THEN [k \in 1..6 |-> IF k <= Len(e.data) THEN e.data[k] ELSE 0]
    ELSE ZeroUnion

\* the little-endian word of the four bytes of b from place k, and byte k
\* of the word w
Word(b, k) == b[k] + U8 * b[k + 1] + U8 * U8 * b[k + 2]
                   + U8 * U8 * U8 * b[k + 3]
Byte(w, k) == (w \div (U8 ^ k)) % U8

\* <[u8; 12] as EventData>::set_data and get_data
Raw12_set_data(d) == <<d[1], d[2], d[3], d[4], Word(d, 5), Word(d, 9)>>
Raw12_get_data(u) ==
    <<u[1], u[2], u[3], u[4],
      Byte(u[5], 0), Byte(u[5], 1), Byte(u[5], 2), Byte(u[5], 3),
      Byte(u[6], 0), Byte(u[6], 1), Byte(u[6], 2), Byte(u[6], 3)>>

\* EvCtrl: channel, param, value
EvCtrl_set_data(d) == <<d[1] % U8, 0, 0, 0, d[2], d[3]>>
EvCtrl_get_data(u) == <<u[1], u[5], u[6]>>

\* Addr: client, port, each `as c_uchar`
Addr_set_data(d) == <<d[1] % U8, d[2] % U8, 0, 0, 0, 0>>
Addr_get_data(u) == <<u[1], u[2]>>

\* Connect: sender.client, sender.port, dest.client, dest.port, each
\* `as c_uchar`
Connect_set_data(d) == <<d[1] % U8, d[2] % U8, d[3] % U8, d[4] % U8, 0, 0>>
Connect_get_data(u) == <<u[1], u[2], u[3], u[4]>>

\* EvResult: event, result
EvResult_set_data(d) ==
    <<Byte(d[1], 0), Byte(d[1], 1), Byte(d[1], 2), Byte(d[1], 3), d[2], 0>>
EvResult_get_data(u) == <<Word(u, 1), u[5]>>

\* EvQueueControl<T>: queue `as c_uchar`, and the value of shape k: none,
\* a u32 position, an i32 value, or a Duration <<secs, nanos>> whose
\* seconds are stored `as c_uint`
EvQueueControl_set_data(k, d) ==
    CASE k = QueueUnitShape -> <<d[1] % U8, 0, 0, 0, 0, 0>>
      [] k = QueueTimeShape ->
            <<d[1] % U8, 0, 0, 0, AsCUint(d[2][1]), d[2][2]>>
      [] OTHER -> <<d[1] % U8, 0, 0, 0, d[2], 0>>

EvQueueControl_get_data(k, u) ==
    CASE k = QueueUnitShape -> <<u[1]>>
      [] k = QueueTimeShape -> <<u[1], <<AsU64(u[5]), u[6]>> >>
      [] OTHER -> <<u[1], u[5]>>

\* D::set_data for the payload d of shape k: what the data union holds
\* after Event::new zeroed it and set_data wrote d
set_data(k, d) ==
    CASE k = NoteShape -> d
      [] k = RawShape -> Raw12_set_data(d)
      [] k = CtrlShape -> EvCtrl_set_data(d)
      [] k = AddrShape -> Addr_set_data(d)
      [] k = ConnectShape -> Connect_set_data(d)
      [] k = ResultShape -> EvResult_set_data(d)
      [] k \in {QueueUnitShape, QueueU32Shape, QueueI32Shape,
                QueueTimeShape} -> EvQueueControl_set_data(k, d)
      [] OTHER -> << >>

\* an Event::new without its first assertion
Event_new_unchecked(t, k, d, n, debug) ==
    IF debug /\ ~ShapeAccepts(k, t)
    THEN [panic |-> TRUE, ev |-> NoEv]
    ELSE [panic |-> FALSE,
          ev |-> [NoEv EXCEPT !.id = n, !.tag = t, !.data = set_data(k, d),
                              !.rec = [ZeroRec EXCEPT !.type = t,
                                          !.flags = get_length_flag(t)]]]

\* Event::new(t, &d), d of shape k, as the Event value number n; debug:
\* the build has debug assertions
Event_new(t, k, d, n, debug) ==
    IF has_ext_data(t) THEN [panic |-> TRUE, ev |-> NoEv]
    ELSE IF debug /\ ~ShapeAccepts(k, t)
    THEN [panic |-> TRUE, ev |-> NoEv]
    ELSE [panic |-> FALSE,
          ev |-> [NoEv EXCEPT !.id = n, !.tag = t, !.data = set_data(k, d),
                              !.rec = [ZeroRec EXCEPT !.type = t,
                                          !.flags = BitOr(0, get_length_flag(t))]]]

\* Event::new_ext(t, data), data owned (a Vec) or borrowed (a slice of the
\* caller's), as the Event value number n
Event_new_ext(t, p, owned, n) ==
    IF ~has_ext_data(t) THEN [panic |-> TRUE, ev |-> NoEv]
    ELSE [panic |-> FALSE,
          ev |-> [NoEv EXCEPT !.id = n, !.tag = t,
                              !.lt = IF owned THEN "static" ELSE "a",
                              !.buf = IF owned THEN "owned" ELSE "borrowed",
                              !.len = Len(p),
                              !.data = IF owned THEN p ELSE << >>,
                              !.rec = [ZeroRec EXCEPT !.type = t,
                                          !.flags = BitOr(0, get_length_flag(t))]]]

\* a panic unwinds the caller: no call follows it
Running == elast.res # "panic"

\* let e = Event::new(t, &d)
New(t, k, d, debug) ==
    /\ UNCHANGED <<notEvent, subs, obuf>>
    /\ Running
    /\ ev = NoEv
    /\ nIds < MaxIds
    /\ LET r == Event_new(t, k, d, nIds + 1, debug) IN
       /\ ev' = r.ev
       /\ elast' = [ECall("new", IF r.panic THEN "panic" ELSE "ok") EXCEPT
                      !.tag = t, !.accepts = ShapeAccepts(k, t),
                      !.debug = debug]
       /\ nIds' = IF r.panic THEN nIds ELSE nIds + 1
    /\ lend' = << >>

\* let e = Event::new_ext(t, p)
NewExt(t, p, owned) ==
    /\ UNCHANGED <<notEvent, subs, obuf>>
    /\ Running
    /\ ev = NoEv
    /\ nIds < MaxIds
    /\ LET r == Event_new_ext(t, p, owned, nIds + 1) IN
       /\ ev' = r.ev
       /\ elast' = [ECall("new_ext", IF r.panic THEN "panic" ELSE "ok") EXCEPT
                      !.tag = t, !.bytes = p,
                      !.some = owned]
       /\ nIds' = IF r.panic THEN nIds ELSE nIds + 1
    /\ lend' = IF owned \/ ~has_ext_data(t) THEN << >> ELSE p

\* where the Event's buffer is now, and how long it is
BufPtr(e) ==
    IF e.buf = "owned" THEN e.id + 1
    ELSE IF e.buf = "borrowed" THEN LenderPtr ELSE NullPtr

BufLen(e) == IF e.buf = "owned" THEN Len(e.data) ELSE e.len

\* a call that hands the record over as it is, without ensure_buf
ensure_buf_skipped(e) == [panic |-> FALSE, ev |-> e]

\* an ensure_buf that adds the length to the one in the record
ensure_buf_adding(e) ==
    IF ~has_ext_data(e.tag) THEN [panic |-> FALSE, ev |-> e]
    ELSE IF e.buf = "none" THEN [panic |-> TRUE, ev |-> e]
    ELSE [panic |-> FALSE,
          ev |-> [e EXCEPT !.rec.len = e.rec.len + BufLen(e),
                           !.rec.ptr = BufPtr(e)]]

\* an ensure_buf that writes the length only
ensure_buf_len_only(e) ==
    IF ~has_ext_data(e.tag) THEN [panic |-> FALSE, ev |-> e]
    ELSE IF e.buf = "none" THEN [panic |-> TRUE, ev |-> e]
    ELSE [panic |-> FALSE, ev |-> [e EXCEPT !.rec.len = BufLen(e)]]

\* Event::ensure_buf
ensure_buf(e) ==
    IF ~has_ext_data(e.tag) THEN [panic |-> FALSE, ev |-> e]
    ELSE IF e.buf = "none" THEN [panic |-> TRUE, ev |-> e]
    ELSE [panic |-> FALSE,
          ev |-> [e EXCEPT !.rec.len = BufLen(e), !.rec.ptr = BufPtr(e)]]

\* the native records handed to Event::extract: a type, its flags, and for
\* a variable-length type the bytes p its (ptr, len) shows
NativeRec(t, f, p) ==
    [ZeroRec EXCEPT !.type = t, !.flags = f,
                    !.len = IF has_ext_data(t) THEN Len(p) ELSE 0,
                    !.ptr = IF has_ext_data(t) THEN LenderPtr ELSE NullPtr]

\* Event::extract of the native record z with fixed payload d, as the Event
\* value number n: the assertion on the length class, then the slice
Event_extract(z, d, n) ==
    IF /\ has_ext_data(z.type)
       /\ BitAnd(z.flags, SND_SEQ_EVENT_LENGTH_MASK)
            = SND_SEQ_EVENT_LENGTH_FIXED
    THEN [panic |-> TRUE, ev |-> NoEv]
    ELSE [panic |-> FALSE,
          ev |-> [rec |-> z] @@ extract(z.type, n, 0, "a", z.len, d)]

\* a clone that copies the record and the tag but not the buffer
Event_clone_bare(e, n) == [e EXCEPT !.id = n, !.buf = "none"]

\* Clone for Event: ptr::read of the record, a clone of the buffer; the
\* clone is the Event value number n
Event_clone(e, n) == [e EXCEPT !.id = n]

\* let e = unsafe { Event::extract(&mut z, ..) }
Extract(t, f, p, d) ==
    /\ UNCHANGED <<notEvent, subs, obuf>>
    /\ Running
    /\ ev = NoEv
    /\ nIds < MaxIds
    /\ LET r == Event_extract(NativeRec(t, f, p), d, nIds + 1)
       IN
       /\ ev' = r.ev
       /\ elast' = [ECall("extract", IF r.panic THEN "panic" ELSE "ok") EXCEPT
                      !.tag = t, !.bytes = p]
       /\ lend' = IF r.panic \/ ~has_ext_data(t) THEN << >> ELSE p
       /\ nIds' = IF r.panic THEN nIds ELSE nIds + 1

\* let e = e.clone()
Clone ==
    /\ UNCHANGED <<notEvent, subs, obuf>>
    /\ Running
    /\ ev # NoEv
    /\ nIds < MaxIds
    /\ ev' = Event_clone(ev, nIds + 1)
    /\ nIds' = nIds + 1
    /\ elast' = [ECall("clone", "ok") EXCEPT !.tag = ev.tag]
    /\ UNCHANGED lend

\* let e = e.into_owned()
EvIntoOwned ==
    /\ UNCHANGED <<notEvent, subs, obuf>>
    /\ Running
    /\ ev # NoEv
    /\ ev' = into_owned(ev, lend)
    /\ elast' = [ECall("into_owned", "ok") EXCEPT
                   !.tag = ev.tag, !.some = ev.buf = "borrowed"]
    /\ UNCHANGED <<nIds, lend>>

\* e.ensure_buf()
EnsureBuf ==
    /\ UNCHANGED <<notEvent, subs, obuf>>
    /\ Running
    /\ ev # NoEv
    /\ LET r == ensure_buf(ev) IN
       /\ ev' = r.ev
       /\ elast' = [ECall("ensure_buf", IF r.panic THEN "panic" ELSE "ok")
                      EXCEPT !.tag = ev.tag]
    /\ UNCHANGED <<nIds, lend>>

\* e.get_ext()
GetExt ==
    /\ UNCHANGED <<notEvent, subs, obuf>>
    /\ Running
    /\ ev # NoEv
    /\ LET panic == has_ext_data(ev.tag) /\ ev.buf = "none"
           r == get_ext(ev, lend)
       IN
       elast' = [ECall("get_ext", IF panic THEN "panic" ELSE "ok") EXCEPT
                   !.tag = ev.tag, !.some = r.some, !.bytes = r.bytes]
    /\ UNCHANGED <<ev, nIds, lend>>

\* EvNote::get_data: the five fields of the note in the data union, which
\* is zeroed when nothing was written to it
EvNote_get_data(e) == SubSeq(Union(e), 1, 5)

\* D::get_data for the shape k: the value read from the data union
D_get_data(e, k) ==
    CASE k = NoteShape -> EvNote_get_data(e)
      [] k = RawShape -> Raw12_get_data(Union(e))
      [] k = CtrlShape -> EvCtrl_get_data(Union(e))
      [] k = AddrShape -> Addr_get_data(Union(e))
      [] k = ConnectShape -> Connect_get_data(Union(e))
      [] k = ResultShape -> EvResult_get_data(Union(e))
      [] k \in {QueueUnitShape, QueueU32Shape, QueueI32Shape,
                QueueTimeShape} -> EvQueueControl_get_data(k, Union(e))
      [] OTHER -> << >>

\* a get_data that reads the union whatever the tag
Event_get_data_unchecked(e, k) ==
    [some |-> TRUE,
     val |-> D_get_data(e, k)]

\* Event::get_data::<D>(), D the shape number k: [some, val]
Event_get_data(e, k) ==
    IF ShapeAccepts(k, e.tag)
    THEN [some |-> TRUE,
          val |-> D_get_data(e, k)]
    ELSE [some |-> FALSE, val |-> << >>]

\* e.get_data::<D>()
GetData(k) ==
    /\ UNCHANGED <<notEvent, subs, obuf>>
    /\ Running
    /\ ev # NoEv
    /\ LET r == Event_get_data(ev, k) IN
       elast' = [ECall("get_data", "ok") EXCEPT
                   !.tag = ev.tag, !.shape = k, !.some = r.some,
                   !.bytes = r.val]
    /\ UNCHANGED <<ev, nIds, lend>>

\* drop(e)
DropEv ==
    /\ UNCHANGED <<notEvent, subs, obuf>>
    /\ Running
    /\ ev # NoEv
    /\ ev' = NoEv
    /\ lend' = << >>
    /\ elast' = ECall("drop", "ok")
    /\ UNCHANGED nIds

\* the payloads of shape k a caller passes, and the fixed payloads a native
\* record of type t carries
ZeroPayload(k) ==
    CASE k = RawShape -> [i \in 1..12 |-> 0]
      [] k = CtrlShape -> <<0, 0, 0>>
      [] k = AddrShape -> <<0, 0>>
      [] k = ConnectShape -> <<0, 0, 0, 0>>
      [] k = ResultShape -> <<0, 0>>
      [] k = QueueUnitShape -> <<0>>
      [] k \in {QueueU32Shape, QueueI32Shape} -> <<0, 0>>
      [] k = QueueTimeShape -> <<0, <<<<0, 0>>, 0>> >>
      [] OTHER -> << >>

PayloadsOf(k) == IF k = NoteShape THEN Notes ELSE { ZeroPayload(k) }
PayloadsIn(t) == IF t = "Noteon" THEN Notes ELSE { << >> }

\* the tags to construct the first Event of: any
NewTags == IF Running /\ ev = NoEv /\ nIds = 0 THEN EventType ELSE {}

(***************************************************************************)
(* Timestamps of an Event (seq.rs 684-719).                                *)
(***************************************************************************)
SND_SEQ_QUEUE_DIRECT == 253
SND_SEQ_TIME_MODE_MASK == 2
SND_SEQ_TIME_STAMP_MASK == 1
SND_SEQ_TIME_MODE_REL == 2
SND_SEQ_TIME_STAMP_REAL == 1
SND_SEQ_TIME_STAMP_TICK == 0
SND_SEQ_TIME_MODE_ABS == 0

\* the number of values of a u8
\* the arguments passed to the scheduling methods.  A number of seconds
\* (u64) is written as its two 32-bit words <<high, low>>: the second one
\* below is 7, the third one 2^32 + 7.
Queues == {1, U8 + 1}
Ticks == {0, 5, 2147483647}
Secs == {<<0, 0>>, <<0, 7>>, <<1, 7>>}
Nanos == {0, 999999999}

\* the flags byte after `flags &= !(STAMP_MASK | MODE_MASK); flags |= m`
SetTimeMode(f, m) ==
    BitOr(BitAnd(f, BitNot(BitOr(SND_SEQ_TIME_STAMP_MASK,
                                 SND_SEQ_TIME_MODE_MASK))), m)

\* Event::schedule_real(queue, relative, Duration::new(secs, nanos))
schedule_real(e, queue, relative, secs, nanos) ==
    [e EXCEPT
       !.rec.flags =
          SetTimeMode(e.rec.flags,
                      BitOr(SND_SEQ_TIME_STAMP_REAL,
                            IF relative THEN SND_SEQ_TIME_MODE_REL
                            ELSE SND_SEQ_TIME_MODE_ABS)),
       !.rec.queue = queue % U8,
       !.rec.time = <<AsCUint(secs), nanos>>]

\* Event::schedule_tick(queue, relative, ttime)
schedule_tick(e, queue, relative, ttime) ==
    [e EXCEPT
       !.rec.flags =
          SetTimeMode(e.rec.flags,
                      BitOr(SND_SEQ_TIME_STAMP_TICK,
                            IF relative THEN SND_SEQ_TIME_MODE_REL
                            ELSE SND_SEQ_TIME_MODE_ABS)),
       !.rec.queue = queue % U8,
       !.rec.time = <<ttime, e.rec.time[2]>>]

\* Event::get_relative
get_relative(e) == BitAnd(e.rec.flags, SND_SEQ_TIME_MODE_REL) # 0

\* Event::get_time: [some, val]
get_time(e) ==
    IF BitAnd(e.rec.flags, SND_SEQ_TIME_STAMP_REAL) # 0
    THEN [some |-> TRUE, val |-> <<AsU64(e.rec.time[1]), e.rec.time[2]>>]
    ELSE [some |-> FALSE, val |-> << >>]

\* Event::get_tick: [some, val]
get_tick(e) ==
    IF BitAnd(e.rec.flags, SND_SEQ_TIME_STAMP_REAL) = 0
    THEN [some |-> TRUE, val |-> <<e.rec.time[1]>>]
    ELSE [some |-> FALSE, val |-> << >>]

\* e.schedule_real(queue, relative, rtime)
ScheduleReal(queue, relative, secs, nanos) ==
    /\ UNCHANGED <<notEvent, subs, obuf>>
    /\ Running
    /\ ev # NoEv
    /\ ev' = schedule_real(ev, queue, relative, secs, nanos)
    /\ elast' = [ECall("schedule_real", "ok") EXCEPT
                   !.tag = ev.tag, !.rel = relative, !.arg = <<secs, nanos>>]
    /\ UNCHANGED <<nIds, lend>>

\* e.schedule_tick(queue, relative, ttime)
ScheduleTick(queue, relative, ttime) ==
    /\ UNCHANGED <<notEvent, subs, obuf>>
    /\ Running
    /\ ev # NoEv
    /\ ev' = schedule_tick(ev, queue, relative, ttime)
    /\ elast' = [ECall("schedule_tick", "ok") EXCEPT
                   !.tag = ev.tag, !.rel = relative, !.arg = <<ttime>>]
    /\ UNCHANGED <<nIds, lend>>

\* the tags of the Events that are scheduled
SchedTags == NewTags \cap {"Noteon", "Sysex"}

ScheduleNext ==
    \/ \E t \in SchedTags, d \in Notes, debug \in BOOLEAN :
          New(t, NoteShape, d, debug)
    \/ \E t \in SchedTags, p \in ExtPayloads, owned \in BOOLEAN :
          NewExt(t, p, owned)
    \/ \E q \in Queues, r \in BOOLEAN, secs \in Secs, nanos \in Nanos :
          ScheduleReal(q, r, secs, nanos)
    \/ \E q \in Queues, r \in BOOLEAN, t \in Ticks : ScheduleTick(q, r, t)

(***************************************************************************)
(* Sending (seq.rs 143-162, 669-701).  The native calls that take the      *)
(* record are not part of seq.rs: they are written after the design's      *)
(* buffered send and drain, and after what seq_loopback observes.          *)
(***************************************************************************)
SND_SEQ_ADDRESS_SUBSCRIBERS == 254
SND_SEQ_ADDRESS_UNKNOWN == 253
SND_SEQ_CLIENT_SYSTEM == 0
SND_SEQ_PORT_SYSTEM_TIMER == 0

MaxOut == 1

\* the ports seq_loopback creates: sport and dport
SenderPort == 0
DestPort == 1

\* Event::set_subs
set_subs(e) ==
    [e EXCEPT !.rec.dest = <<SND_SEQ_ADDRESS_SUBSCRIBERS,
                             SND_SEQ_ADDRESS_UNKNOWN>>]

\* Event::set_source
set_source(e, p) == [e EXCEPT !.rec.source = <<e.rec.source[1], p % U8>>]

\* Event::set_direct
set_direct(e) == [e EXCEPT !.rec.queue = SND_SEQ_QUEUE_DIRECT]

\* the record's length class is not the fixed one
IsVariable(z) ==
    BitAnd(z.flags, SND_SEQ_EVENT_LENGTH_MASK) # SND_SEQ_EVENT_LENGTH_FIXED

\* the record's (ptr, len) is the Event's buffer, or a part of it
PointsAtBuf(e) == e.rec.ptr = BufPtr(e) /\ e.rec.len <= BufLen(e)

\* what a read of len bytes at ptr may find: the bytes of the buffer when
\* the pair points at it, anything otherwise
Junk(e) ==
    IF e.rec.len = 0 \/ PointsAtBuf(e) \/ ~IsVariable(e.rec)
    THEN { << >> } ELSE { <<1>>, <<2, 1>> }

\* the bytes the native side reads at the record's (ptr, len)
Deref(e, mem, junk) ==
    IF e.rec.len = 0 THEN << >>
    ELSE IF PointsAtBuf(e) THEN SubSeq(View(e, mem), 1, e.rec.len)
    ELSE junk

\* what the native side copies out of the Event's record: the header, the
\* fixed payload and, for a variable length class, the bytes at (ptr, len)
Packet(e, mem, junk) ==
    [type |-> e.rec.type, source |-> e.rec.source, dest |-> e.rec.dest,
     queue |-> e.rec.queue, data |-> e.data,
     len |-> IF IsVariable(e.rec) THEN e.rec.len ELSE 0,
     ext |-> IF IsVariable(e.rec) THEN Deref(e, mem, junk) ELSE << >>]

\* the sequencer passes on at once the events that are sent without a queue
\* from the sender port to its subscribers, when there is a subscriber
Routed(pkt, sub) ==
    /\ sub
    /\ pkt.dest = <<SND_SEQ_ADDRESS_SUBSCRIBERS, SND_SEQ_ADDRESS_UNKNOWN>>
    /\ pkt.source[2] = SenderPort
    /\ pkt.queue = SND_SEQ_QUEUE_DIRECT

\* the events of the buffer b that arrive at the destination port
RECURSIVE Arrivals(_, _)
Arrivals(b, sub) ==
    IF b = << >> THEN << >>
    ELSE (IF Routed(Head(b), sub)
          THEN << [type |-> Head(b).type, len |-> Head(b).len,
                   data |-> Head(b).data] >>
          ELSE << >>) \o Arrivals(Tail(b), sub)

EAGAIN == 11

\* snd_seq_event_output_buffer: the event enters the output buffer, if
\* there is room for it; returns the number of events in the buffer
snd_seq_event_output_buffer(b, pkt) ==
    IF Len(b) >= MaxOut THEN [ret |-> -EAGAIN, obuf |-> b]
    ELSE [ret |-> Len(b) + 1, obuf |-> Append(b, pkt)]

\* snd_seq_drain_output: the buffered events go to the sequencer
snd_seq_drain_output(b, q, sub, ok) ==
    IF ok THEN [ret |-> 0, obuf |-> << >>, kq |-> q \o Arrivals(b, sub)]
    ELSE [ret |-> -1, obuf |-> b, kq |-> q]

\* snd_seq_event_output: as snd_seq_event_output_buffer, after a drain if
\* the buffer is full
snd_seq_event_output(b, q, sub, pkt, ok) ==
    LET r == snd_seq_event_output_buffer(b, pkt) IN
    IF r.ret # -EAGAIN THEN [ret |-> r.ret, obuf |-> r.obuf, kq |-> q]
    ELSE LET d == snd_seq_drain_output(b, q, sub, ok) IN
         IF d.ret < 0 THEN [ret |-> d.ret, obuf |-> d.obuf, kq |-> d.kq]
         ELSE [ret |-> 1, obuf |-> <<pkt>>, kq |-> d.kq]

\* snd_seq_event_output_direct: the event goes to the sequencer at once
snd_seq_event_output_direct(b, q, sub, pkt, ok) ==
    IF ok THEN [ret |-> 1, obuf |-> b, kq |-> q \o Arrivals(<<pkt>>, sub)]
    ELSE [ret |-> -1, obuf |-> b, kq |-> q]

\* snd_seq_control_queue with a record: the record becomes a queue-control
\* event of type t for the system timer port
control_record(e, t) ==
    [e EXCEPT !.rec.type = t,
              !.rec.dest = <<SND_SEQ_CLIENT_SYSTEM, SND_SEQ_PORT_SYSTEM_TIMER>>]

\* the events the sequencer and the buffers hold are bounded
CanSend == Len(kq) + Len(ibuf) + Len(obuf) <= MaxDeliver

\* a call of one of the output methods: ensure_buf, then the native call
\* `how` applied to the record
Output(op, how, ok, junk) ==
    LET s == ensure_buf(ev) IN
    IF s.panic
    THEN /\ elast' = [ECall(op, "panic") EXCEPT !.tag = ev.tag]
         /\ UNCHANGED <<ev, obuf, kq>>
    ELSE LET pkt == Packet(s.ev, lend, junk)
             r == CASE how = "buffer" ->
                         [kq |-> kq] @@ snd_seq_event_output_buffer(obuf, pkt)
                    [] how = "direct" ->
                         snd_seq_event_output_direct(obuf, kq, subs, pkt,
                                                     transport_call(ok))
                    [] OTHER ->
                         snd_seq_event_output(obuf, kq, subs, pkt,
                                              transport_call(ok))
         IN
         /\ ev' = s.ev
         /\ obuf' = r.obuf
         /\ kq' = r.kq
         /\ elast' = [ECall(op, IF r.ret < 0 THEN "Err" ELSE "Ok") EXCEPT
                        !.tag = ev.tag, !.len = s.ev.rec.len,
                        !.ptr = s.ev.rec.ptr, !.syncs = 1, !.some = TRUE]

\* what an output method leaves alone
notOutput ==
    <<shapeVars, codecVars, owner, seqOpen, inUse, pc, inputs, nInputs,
      streams, events, ibuf, nDelivered, last, nIds, lend, subs>>

\* s.event_output(&mut e)
EventOutput(ok, junk) ==
    /\ UNCHANGED notOutput
    /\ Running
    /\ ev # NoEv
    /\ CanSend
    /\ Output("event_output", "output", ok, junk)

\* s.event_output_buffer(&mut e)
EventOutputBuffer(junk) ==
    /\ UNCHANGED notOutput
    /\ Running
    /\ ev # NoEv
    /\ CanSend
    /\ Output("event_output_buffer", "buffer", TRUE, junk)

\* s.event_output_direct(&mut e)
EventOutputDirect(ok, junk) ==
    /\ UNCHANGED notOutput
    /\ Running
    /\ ev # NoEv
    /\ CanSend
    /\ Output("event_output_direct", "direct", ok, junk)

\* s.drain_output()
DrainOutput(ok) ==
    /\ UNCHANGED notOutput
    /\ Running
    /\ LET r == snd_seq_drain_output(obuf, kq, subs, transport_call(ok)) IN
       /\ obuf' = r.obuf
       /\ kq' = r.kq
       /\ elast' = [ECall("drain_output", IF r.ret < 0 THEN "Err" ELSE "Ok")
                      EXCEPT !.some = Arrivals(obuf, subs) # << >>]
    /\ UNCHANGED ev

\* the tags to control a queue with
ControlTags == {"Start", "Noteon"}

\* s.control_queue(q, t, value, Some(&mut e))
ControlQueue(t, ok, junk) ==
    /\ UNCHANGED notOutput
    /\ Running
    /\ ev # NoEv
    /\ CanSend
    /\ IF ~(\/ QueueUnit_has_data(t)
            \/ QueueI32_has_data(t)
            \/ QueueU32_has_data(t))
       THEN /\ elast' = [ECall("control_queue", "panic") EXCEPT
                           !.tag = ev.tag, !.some = TRUE]
            /\ UNCHANGED <<ev, obuf, kq>>
       ELSE LET e == control_record(ev, t)
                pkt == Packet(e, lend, junk)
                r == snd_seq_event_output(obuf, kq, subs, pkt,
                                          transport_call(ok))
            IN
            /\ ev' = e
            /\ obuf' = r.obuf
            /\ kq' = r.kq
            /\ elast' = [ECall("control_queue",
                               IF r.ret < 0 THEN "Err" ELSE "Ok") EXCEPT
                           !.tag = ev.tag, !.len = ev.rec.len,
                           !.ptr = ev.rec.ptr, !.syncs = 0, !.some = TRUE]

EventNext ==
    \/ \E t \in NewTags, k \in DataShapes, debug \in BOOLEAN :
          \E d \in PayloadsOf(k) : New(t, k, d, debug)
    \/ \E t \in NewTags, p \in ExtPayloads, owned \in BOOLEAN :
          NewExt(t, p, owned)
    \/ \E t \in NewTags, p \in ExtPayloads :
          \E f \in {get_length_flag(t), SND_SEQ_EVENT_LENGTH_FIXED},
             d \in PayloadsIn(t) :
             Extract(t, f, p, d)
    \/ Clone
    \/ EvIntoOwned
    \/ EnsureBuf
    \/ GetExt
    \/ \E k \in DataShapes : GetData(k)
    \/ DropEv

(***************************************************************************)
(* MidiEvent::decode of an Event value (seq.rs 1178-1181), and the way     *)
(* back through MidiEvent::encode.  The native decoder is not part of      *)
(* seq.rs: it writes the bytes of a Sysex record as they are, and a note   *)
(* on as its status byte (left out when running status applies), its note  *)
(* and its velocity.                                                       *)
(***************************************************************************)
ENOENT == 2

\* the output buffer sizes a caller passes to decode
Caps == 0..MaxBuf

\* snd_midi_event_decode of the packet read from the record, into an output
\* buffer of cap bytes: [dev, ret, out]
snd_midi_event_decode(d, pkt, cap) ==
    IF pkt.type = "Sysex"
    THEN LET r == snd_midi_event_decode_sysex(pkt.ext, cap) IN
         [dev |-> [d EXCEPT !.lastcmd = 255], ret |-> r.ret, out |-> r.out]
    ELSE IF pkt.type = "Noteon"
    THEN LET cmd == NOTEON_CH0 + (pkt.data[1] % 16)
             body == <<pkt.data[2] % 128, pkt.data[3] % 128>>
             running == ~d.nostat /\ d.lastcmd = cmd
         IN
         IF running
         THEN IF cap < 2 THEN [dev |-> d, ret |-> -ENOMEM, out |-> << >>]
              ELSE [dev |-> d, ret |-> 2, out |-> body]
         ELSE IF cap < 3 THEN [dev |-> d, ret |-> -ENOMEM, out |-> << >>]
              ELSE [dev |-> [d EXCEPT !.lastcmd = cmd], ret |-> 3,
                    out |-> <<cmd>> \o body]
    ELSE [dev |-> d, ret |-> -ENOENT, out |-> << >>]

\* me.decode(&mut buf, &mut e), buf of cap bytes
DecodeEvent(cap, junk) ==
    /\ UNCHANGED <<shapeVars, inputVars, nIds, lend, subs, obuf>>
    /\ Running
    /\ ev # NoEv
    /\ meAlive
    /\ ~CodecBorrowed
    /\ LET s == ensure_buf(ev) IN
       IF s.panic
       THEN /\ elast' = [ECall("decode", "panic") EXCEPT !.tag = ev.tag]
            /\ UNCHANGED <<ev, codecVars>>
       ELSE LET pkt == Packet(s.ev, lend, junk)
                r == snd_midi_event_decode(dev, pkt, cap)
            IN
            /\ ev' = s.ev
            /\ dev' = r.dev
            /\ lastDecode' = [res |-> IF r.ret < 0 THEN "Err" ELSE "Ok",
                              ret |-> r.ret, out |-> r.out]
            /\ lastEncode' = NoEncode
            /\ cevents' = Disturb(cevents)
            /\ elast' = [ECall("decode", IF r.ret < 0 THEN "Err" ELSE "Ok")
                           EXCEPT !.tag = ev.tag, !.len = s.ev.rec.len,
                                  !.ptr = s.ev.rec.ptr, !.syncs = 1,
                                  !.some = TRUE, !.arg = <<cap>>]
            /\ UNCHANGED <<meAlive, nEncodes>>

\* the bytes the last decode wrote
Decoded ==
    IF lastDecode.res = "Ok" /\ lastDecode.out # << >>
    THEN {lastDecode.out} ELSE {}

\* the tags of the Events that are decoded
CodedTags == NewTags \cap {"Noteon", "Sysex", "Noteoff"}

RoundTripNext ==
    \/ \E t \in CodedTags, d \in Notes, debug \in BOOLEAN :
          New(t, NoteShape, d, debug)
    \/ \E t \in CodedTags, p \in ExtPayloads, owned \in BOOLEAN :
          NewExt(t, p, owned)
    \/ Clone
    \/ EvIntoOwned
    \/ \E cap \in Caps : \E junk \in Junk(ensure_buf(ev).ev) :
          DecodeEvent(cap, junk)
    \/ \E b \in Decoded : nEncodes < MaxEncodes /\ Encode(b)
    \/ \E n \in BufSizes : ResizeBuffer(n)
    \/ \E enable \in BOOLEAN : EnableRunningStatus(enable)
    \/ \E e \in BagToSet(cevents) : CodecDropEvent(e)

\* the tags of the Events that are handed to the native side
OutTags == NewTags \cap {"Noteon", "Sysex"}

BoundaryNext ==
    \/ \E t \in OutTags, d \in Notes, debug \in BOOLEAN :
          New(t, NoteShape, d, debug)
    \/ \E t \in OutTags, p \in ExtPayloads, owned \in BOOLEAN :
          NewExt(t, p, owned)
    \/ \E t \in OutTags, p \in ExtPayloads :
          \E d \in PayloadsIn(t) : Extract(t, get_length_flag(t), p, d)
    \/ Clone
    \/ EvIntoOwned
    \/ \E ok \in BOOLEAN : \E junk \in Junk(ensure_buf(ev).ev) :
          EventOutput(ok, junk)
    \/ \E junk \in Junk(ensure_buf(ev).ev) : EventOutputBuffer(junk)
    \/ \E ok \in BOOLEAN : \E junk \in Junk(ensure_buf(ev).ev) :
          EventOutputDirect(ok, junk)
    \/ \E ok \in BOOLEAN : DrainOutput(ok)
    \/ \E t \in ControlTags, ok \in BOOLEAN : \E junk \in Junk(ev) :
          ControlQueue(t, ok, junk)
    \/ \E cap \in Caps : \E junk \in Junk(ensure_buf(ev).ev) :
          DecodeEvent(cap, junk)

(***************************************************************************)
(* The loopback of seq_loopback (seq.rs 1227-1268): a note is sent from    *)
(* the sender port and read back at the destination port.                  *)
(***************************************************************************)
\* e.set_subs()
SetSubs ==
    /\ UNCHANGED <<notEvent, subs, obuf>>
    /\ Running
    /\ ev # NoEv
    /\ ev' = set_subs(ev)
    /\ elast' = [ECall("set_subs", "ok") EXCEPT !.tag = ev.tag]
    /\ UNCHANGED <<nIds, lend>>

\* e.set_direct()
SetDirect ==
    /\ UNCHANGED <<notEvent, subs, obuf>>
    /\ Running
    /\ ev # NoEv
    /\ ev' = set_direct(ev)
    /\ elast' = [ECall("set_direct", "ok") EXCEPT !.tag = ev.tag]
    /\ UNCHANGED <<nIds, lend>>

\* e.set_source(p)
SetSource(p) ==
    /\ UNCHANGED <<notEvent, subs, obuf>>
    /\ Running
    /\ ev # NoEv
    /\ ev' = set_source(ev, p)
    /\ elast' = [ECall("set_source", "ok") EXCEPT !.tag = ev.tag]
    /\ UNCHANGED <<nIds, lend>>

\* s.subscribe_port(&subs), sender sport, destination dport
SubscribePort ==
    /\ UNCHANGED <<notEvent, obuf>>
    /\ Running
    /\ ~subs
    /\ subs' = TRUE
    /\ elast' = ECall("subscribe_port", "Ok")
    /\ UNCHANGED <<ev, nIds, lend>>

\* the tag of the Event that is sent around
LoopTags == NewTags \cap {"Noteon"}

LoopbackNext ==
    \/ \E t \in LoopTags, d \in Notes, debug \in BOOLEAN :
          New(t, NoteShape, d, debug)
    \/ SetSubs
    \/ SetDirect
    \/ \E p \in {SenderPort, DestPort} : SetSource(p)
    \/ SubscribePort
    \/ \E ok \in BOOLEAN : \E junk \in Junk(ensure_buf(ev).ev) :
          EventOutput(ok, junk)
    \/ \E ok \in BOOLEAN : DrainOutput(ok)
    \/ \E t \in Threads : CheckHasInput(t)
    \/ \E t \in Threads : SetInUse(t)
    \/ \E i \in inputs, ok \in BOOLEAN : EventInput(i, ok)
    \/ \E e \in events : DropEvent(e)

(***************************************************************************)
(* MidiEvent::decode seen from its caller (seq.rs 1178-1181): the byte      *)
(* buffer holds something before the call, and the native decoder gets the  *)
(* record by a const pointer.                                               *)
(***************************************************************************)
\* what the caller's buffer holds before the call: a complete message, or
\* data bytes only
DecodeBufs == Messages \cup { [k \in 1..n |-> 1] : n \in 0..MaxBytes }

\* me.decode(&mut buf, &mut e), buf holding the bytes b
DecodeInto(b, junk) ==
    /\ UNCHANGED <<shapeVars, inputVars, nIds, lend, subs, obuf>>
    /\ Running
    /\ ev # NoEv
    /\ meAlive
    /\ ~CodecBorrowed
    /\ LET s == ensure_buf(ev) IN
       IF s.panic
       THEN /\ elast' = [ECall("decode", "panic") EXCEPT !.tag = ev.tag]
            /\ UNCHANGED <<ev, codecVars>>
       ELSE LET pkt == Packet(s.ev, lend, junk)
                r == snd_midi_event_decode(dev, pkt, Len(b))
            IN
            /\ ev' = s.ev
            /\ dev' = r.dev
            /\ lastDecode' = [res |-> IF r.ret < 0 THEN "Err" ELSE "Ok",
                              ret |-> r.ret, out |-> r.out]
            /\ lastEncode' = NoEncode
            /\ cevents' = Disturb(cevents)
            /\ elast' = [ECall("decode", IF r.ret < 0 THEN "Err" ELSE "Ok")
                           EXCEPT !.tag = ev.tag, !.len = s.ev.rec.len,
                                  !.ptr = s.ev.rec.ptr, !.syncs = 1,
                                  !.some = TRUE, !.bytes = b,
                                  !.arg = <<Len(b)>>]
            /\ UNCHANGED <<meAlive, nEncodes>>

\* the tags of the Events that are handed to decode: a note on, a system
\* exclusive message, and an event that is no MIDI message
DecodeTags == NewTags \cap {"Noteon", "Sysex", "PortSubscribed"}

\* one decode call
DecodeCall ==
    \E b \in DecodeBufs : \E junk \in Junk(ensure_buf(ev).ev) :
       DecodeInto(b, junk)

DecodeNext ==
    \/ \E t \in DecodeTags, d \in Notes, debug \in BOOLEAN :
          New(t, NoteShape, d, debug)
    \/ \E t \in DecodeTags, p \in ExtPayloads, owned \in BOOLEAN :
          NewExt(t, p, owned)
    \/ Clone
    \/ EvIntoOwned
    \/ DecodeCall
    \/ \E enable \in BOOLEAN : EnableRunningStatus(enable)

(***************************************************************************)
(* The calls that reach the transport, on one handle: the methods of Input *)
(* and of its stream, and the output methods (seq.rs 149-162, 210-257).    *)
(***************************************************************************)
\* the tag of the Event that is sent
TransportTags == NewTags \cap {"Noteon"}

TransportNext ==
    \/ \E tag \in DeliverTags : Deliver(tag)
    \/ \E t \in Threads : CheckHasInput(t)
    \/ \E t \in Threads : SetInUse(t)
    \/ \E i \in inputs, ok \in BOOLEAN : EventInput(i, ok)
    \/ \E i \in inputs, fetch \in BOOLEAN, ok \in BOOLEAN :
          EventInputPending(i, fetch, ok)
    \/ \E i \in inputs, ok \in BOOLEAN : SetInputBufferSize(i, ok)
    \/ \E i \in inputs : Stream(i)
    \/ \E i \in inputs, ok1 \in BOOLEAN, ok2 \in BOOLEAN : PollNext(i, ok1, ok2)
    \/ \E e \in events : DropEvent(e)
    \/ \E t \in TransportTags, d \in Notes : New(t, NoteShape, d, FALSE)
    \/ \E ok \in BOOLEAN : \E junk \in Junk(ensure_buf(ev).ev) :
          EventOutput(ok, junk)
    \/ \E junk \in Junk(ensure_buf(ev).ev) : EventOutputBuffer(junk)
    \/ \E ok \in BOOLEAN : \E junk \in Junk(ensure_buf(ev).ev) :
          EventOutputDirect(ok, junk)
    \/ \E ok \in BOOLEAN : DrainOutput(ok)

(***************************************************************************)
(* The InputStream polled by an executor (seq.rs 243-257): the task is     *)
(* polled while it is runnable, and events arrive from other clients.      *)
(***************************************************************************)
StreamNext ==
    \/ \E tag \in DeliverTags : Deliver(tag)
    \/ \E t \in Threads : CheckHasInput(t)
    \/ \E t \in Threads : SetInUse(t)
    \/ \E i \in inputs : Stream(i)
    \/ \E i \in inputs : TaskPoll(i)
    \/ \E e \in events : DropEvent(e)
    \/ \E e \in events : IntoOwned(e)

\* the executor polls a runnable task, sooner or later
StreamFairness == WF_vars(\E i \in inputs : TaskPoll(i))

(***************************************************************************)
(* The flags byte and the setters of an Event (seq.rs 669-727).            *)
(***************************************************************************)
SND_SEQ_PRIORITY_HIGH == 16

\* a set_priority that assigns the flags byte
set_priority_assigning(e, is_high_prio) ==
    [e EXCEPT !.rec.flags = IF is_high_prio THEN SND_SEQ_PRIORITY_HIGH ELSE 0]

\* Event::set_priority(is_high_prio)
set_priority(e, is_high_prio) ==
    [e EXCEPT !.rec.flags =
        IF is_high_prio THEN BitOr(e.rec.flags, SND_SEQ_PRIORITY_HIGH)
        ELSE BitAnd(e.rec.flags, BitNot(SND_SEQ_PRIORITY_HIGH))]

\* Event::get_priority
get_priority(e) == BitAnd(e.rec.flags, SND_SEQ_PRIORITY_HIGH) # 0

\* Event::set_dest(d), d an Addr <<client, port>>
set_dest(e, d) == [e EXCEPT !.rec.dest = <<d[1] % U8, d[2] % U8>>]

\* Event::set_tag(t)
set_tag(e, t) == [e EXCEPT !.rec.tag = t % U8]

\* Event::set_queue(q)
set_queue(e, q) == [e EXCEPT !.rec.queue = q % U8]

\* e.set_priority(is_high_prio)
SetPriority(is_high_prio) ==
    /\ UNCHANGED <<notEvent, subs, obuf>>
    /\ Running
    /\ ev # NoEv
    /\ ev' = set_priority(ev, is_high_prio)
    /\ elast' = [ECall("set_priority", "ok") EXCEPT !.tag = ev.tag]
    /\ UNCHANGED <<nIds, lend>>

\* e.set_dest(d)
SetDest(d) ==
    /\ UNCHANGED <<notEvent, subs, obuf>>
    /\ Running
    /\ ev # NoEv
    /\ ev' = set_dest(ev, d)
    /\ elast' = [ECall("set_dest", "ok") EXCEPT !.tag = ev.tag]
    /\ UNCHANGED <<nIds, lend>>

\* e.set_tag(t)
SetTag(t) ==
    /\ UNCHANGED <<notEvent, subs, obuf>>
    /\ Running
    /\ ev # NoEv
    /\ ev' = set_tag(ev, t)
    /\ elast' = [ECall("set_tag", "ok") EXCEPT !.tag = ev.tag]
    /\ UNCHANGED <<nIds, lend>>

\* e.set_queue(q)
SetQueue(q) ==
    /\ UNCHANGED <<notEvent, subs, obuf>>
    /\ Running
    /\ ev # NoEv
    /\ ev' = set_queue(ev, q)
    /\ elast' = [ECall("set_queue", "ok") EXCEPT !.tag = ev.tag]
    /\ UNCHANGED <<nIds, lend>>

\* one tag of each length class, and a second variable one
FlagTags == NewTags \cap {"Noteon", "Sysex", "Bounce", "UsrVar0"}

FlagsNext ==
    \/ \E t \in FlagTags : New(t, NoteShape, <<0, 64, 100, 64, 100>>, FALSE)
    \/ \E t \in FlagTags : NewExt(t, << >>, TRUE)
    \/ \E r \in BOOLEAN : ScheduleReal(1, r, <<0, 7>>, 0)
    \/ \E r \in BOOLEAN : ScheduleTick(1, r, 5)
    \/ \E h \in BOOLEAN : SetPriority(h)
    \/ SetSubs
    \/ SetDest(<<128, 1>>)
    \/ SetSource(1)
    \/ SetTag(U8 - 1)
    \/ SetQueue(2)
    \/ SetDirect

(***************************************************************************)
(* Fixed payloads written by Event::new and read back (seq.rs 754-1052).   *)
(***************************************************************************)
\* the payloads of shape k a caller builds: field values within and beyond
\* one byte, seconds within and beyond 32 bits
Payloads(k) ==
    CASE k = NoteShape -> Notes
      [] k = RawShape -> { ZeroPayload(k), [i \in 1..12 |-> i] }
      [] k = CtrlShape -> { ZeroPayload(k), <<15, 7, 100>> }
      [] k = AddrShape -> { ZeroPayload(k), <<128, 1>>, <<U8, 0>>,
                            <<1, U8 + 1>> }
      [] k = ConnectShape -> { ZeroPayload(k), <<128, 0, 129, 1>>,
                               <<U8 + 128, 0, 129, 1>> }
      [] k = ResultShape -> { ZeroPayload(k), <<U8 + 1, 5>> }
      [] k = QueueUnitShape -> { <<q>> : q \in {0} \cup Queues }
      [] k \in {QueueU32Shape, QueueI32Shape} ->
            { <<q, v>> : q \in {0} \cup Queues, v \in {0, 5} }
      [] k = QueueTimeShape ->
            { <<q, <<s, n>> >> : q \in {1}, s \in Secs, n \in Nanos }
      [] OTHER -> { ZeroPayload(k) }

\* one tag of each fixed payload shape
PayloadTags ==
    NewTags \cap {"None", "Echo", "Noteon", "Controller", "PortStart",
                  "PortSubscribed", "Result", "Start", "Tick", "Tempo",
                  "SetposTime"}

PayloadNext ==
    \/ \E t \in PayloadTags, k \in DataShapes, debug \in BOOLEAN :
          \E d \in Payloads(k) : ShapeAccepts(k, t) /\ New(t, k, d, debug)
    \/ \E k \in DataShapes : GetData(k)
    \/ \E s \in Secs, n \in Nanos : ScheduleReal(1, FALSE, s, n)
    \/ DropEv

(***************************************************************************)
(* Specifications.                                                         *)
(***************************************************************************)
Init == ShapeInit /\ InputInit /\ CodecInit /\ EventInit

\* the payload-shape table, exercised by the test seq_has_data
SpecShape == Init /\ [][ShapeNext]_vars

\* the Input channel of one Seq
SpecInput == Init /\ [][InputNext]_vars

\* one MidiEvent coder that is given complete MIDI messages
SpecCodec == Init /\ [][CodecNext]_vars

\* one encode call, of any bytes, on a coder that has seen any bytes before
InitEncode == ShapeInit /\ InputInit /\ FedInit /\ EventInit

SpecEvent == Init /\ [][EventNext]_vars

SpecSchedule == Init /\ [][ScheduleNext]_vars

SpecBoundary == Init /\ [][BoundaryNext]_vars

SpecRoundTrip == Init /\ [][RoundTripNext]_vars

SpecLoopback == Init /\ [][LoopbackNext]_vars

SpecEncode == InitEncode /\ [][EncodeNext]_vars

SpecDecode == Init /\ [][DecodeNext]_vars

SpecTransport == Init /\ [][TransportNext]_vars

SpecStream == Init /\ [][StreamNext]_vars /\ StreamFairness

SpecPayload == Init /\ [][PayloadNext]_vars

SpecFlags == Init /\ [][FlagsNext]_vars

(***************************************************************************)
(* The claims.                                                             *)
(***************************************************************************)

\* C1: for every one of the 59 EventType tags exactly one of the twelve
\* shape predicates (the eleven has_data predicates and has_ext_data) is
\* true: when seq_has_data has evaluated all twelve for a tag, its counter
\* is 1, and the test never panics.
C1_ExactlyOneShape ==
    /\ Len(ALL_EVENT_TYPES) = 59
    /\ Cardinality(EventType) = 59
    /\ tk = NumShapes => ti = 1
    /\ ~tpanic

\* the test has counted the shapes of the last of the 59 tags
C1_Witness ==
    /\ tv = Len(ALL_EVENT_TYPES)
    /\ tk = NumShapes
    /\ ti = 1

\* C2: input() called while an Input of the same Seq is alive panics and
\* yields no second Input; called while none is alive (in particular after
\* the first was dropped) it does not panic and yields the one Input.
C2_CheckoutDiscipline ==
    /\ last.op = "input" /\ last.res = "panic" =>
          last.had /\ last.after = 1
    /\ last.op = "input" /\ last.res \in {"checking", "ok"} => ~last.had
    /\ last.op = "input" /\ last.res = "ok" => last.after = 1

\* the first Input was released, a second one obtained, and a further
\* input() call has panicked
C2_Witness ==
    /\ last.op = "input"
    /\ last.res = "panic"
    /\ InputIds = {2}

\* C3: at most one Input is alive and the in-use flag is true exactly when
\* an Input is alive, after any sequence of input() calls (failed ones
\* included) and releases.
C3_FlagIffInput ==
    /\ Cardinality(inputs) <= 1
    /\ inUse <=> inputs # {}

\* a failed checkout has left the flag set and the existing Input alive
C3_Witness ==
    /\ last.op = "input"
    /\ last.res = "panic"
    /\ inUse
    /\ Cardinality(inputs) = 1

\* C4: no extraction from the receive buffer (event_input, or a poll of the
\* InputStream that extracts) happens while an Event returned by an earlier
\* extraction on the same Input is still alive.
C4_OneEventPerReader ==
    [][last'.op \in {"event_input", "poll_next"} /\ last'.item # "none" =>
          ~\E e \in events : e.src = last'.inp /\ e.lt # "static"]_vars

\* C5: while an Event that borrows the receive buffer is alive, the buffer
\* is not overwritten, replaced or freed.
C5_BufferStable ==
    \A e \in events : e.buf = "borrowed" => ~e.stale

\* C6: with the handle used from several threads, and the check and the
\* setting of the in-use flag being separate steps, there is never more
\* than one checked-out reader, and never a thread past the check while a
\* reader exists or another thread is past the check.
C6_OneReaderAcrossThreads ==
    Cardinality(inputs) + Cardinality({t \in Threads : pc[t] = "checked"}) <= 1

\* the handle has moved to a second thread after an Input was obtained and
\* released, and that thread is between the check and the setting of the
\* flag
C6_Witness ==
    /\ owner # 1
    /\ pc[owner] = "checked"
    /\ nInputs = 1

C8_StreamDropReleases ==
    [][(streams' # streams /\ streams' \subseteq streams) => ~inUse']_vars

\* C8, amended: dropping the InputStream leaves the checkout held (the
\* Input is alive, the flag set, a new input() would panic); dropping the
\* Input makes the channel Idle, so that a new input() succeeds.
C8_InputDropReleases ==
    [][/\ (streams' # streams /\ streams' \subseteq streams) =>
             inputs' = inputs /\ inUse' /\ check_has_input(inUse')
       /\ (inputs' # inputs /\ inputs' \subseteq inputs) =>
             ~inUse' /\ ~check_has_input(inUse')]_vars

\* the stream of an Input has just been dropped: the Input is alive and
\* the flag is still set
C8_Witness ==
    /\ last.op = "drop_stream"
    /\ inputs # {}
    /\ inUse

\* C9: while an Event returned by encode, or a clone of it that was not
\* converted with into_owned, is alive, the coder is not operated on
\* (encode, decode, resize_buffer, enable_running_status) and not freed: no
\* Event that borrows the coder has seen such an operation.
C9_EncodeBorrowsCoder ==
    \A e \in BagToSet(cevents) : e.lt = "a" => ~e.stale

\* a second encode, made once the Event of the first was gone, has returned
\* a Sysex Event that is alive together with a clone
C9_Witness ==
    /\ nEncodes = 2
    /\ \E e \in BagToSet(cevents) :
          e.lt = "a" /\ e.tag = "Sysex" /\ cevents[e] = 2

\* C10: one encode call given a complete system-exclusive message of n
\* bytes that fits the coder's buffer returns consumed = n and Some(Event)
\* of type Sysex whose get_ext() bytes are the n input bytes; an encode
\* call that consumes bytes without completing a message returns None.
C10_EncodeSysex ==
    /\ (/\ lastEncode.res # "none"
        /\ IsSysexMessage(lastEncode.bytes)
        /\ Len(lastEncode.bytes) <= lastEncode.bufsize) =>
          /\ lastEncode.res = "Ok"
          /\ lastEncode.consumed = Len(lastEncode.bytes)
          /\ lastEncode.some
          /\ lastEncode.tag = "Sysex"
          /\ lastEncode.ext = lastEncode.bytes
    /\ (lastEncode.res = "Ok" /\ ~lastEncode.complete) => ~lastEncode.some

\* a three-byte system-exclusive message was encoded into a buffer of three
\* bytes by a coder that was in the middle of another message
C10_Witness ==
    /\ lastEncode.res = "Ok"
    /\ lastEncode.bytes = <<SYSEX, 1, SYSEX_END>>
    /\ lastEncode.bufsize = Len(lastEncode.bytes)
    /\ ~lastEncode.fresh
    /\ lastEncode.some

\* C14 (as stated): Event::new panics for each of the seven variable-length
\* tags and succeeds for every other tag; Event::new_ext panics for every
\* fixed-length tag and succeeds for the variable-length ones.
C14_ConstructorsByTag ==
    /\ elast.op = "new" =>
          (elast.res = "panic" <=> has_ext_data(elast.tag))
    /\ elast.op = "new_ext" =>
          (elast.res = "panic" <=> ~has_ext_data(elast.tag))

\* C14 (amended): Event::new panics for each variable-length tag, and for
\* a fixed-length tag that the payload's shape does not accept when the
\* build has debug assertions; otherwise it succeeds.  Event::new_ext
\* panics exactly for the fixed-length tags, with owned and borrowed bytes.
C14_ConstructorsByTagAndShape ==
    /\ elast.op = "new" =>
          (elast.res = "panic" <=>
              \/ has_ext_data(elast.tag)
              \/ elast.debug /\ ~elast.accepts)
    /\ elast.op = "new_ext" =>
          (elast.res = "panic" <=> ~has_ext_data(elast.tag))

\* Event::new of a fixed-length tag with a payload of another shape has
\* panicked
C14_Witness ==
    /\ elast.op = "new"
    /\ elast.res = "panic"
    /\ ~has_ext_data(elast.tag)
    /\ ~elast.accepts

\* C15: every Event made by new, new_ext, extract, clone or into_owned has
\* a buffer exactly when its tag is variable-length; get_ext returns Some
\* exactly for those tags; get_ext and ensure_buf never panic.
C15_BufferIffVariable ==
    /\ ev # NoEv => (ev.buf # "none" <=> has_ext_data(ev.tag))
    /\ elast.op \in {"get_ext", "ensure_buf"} => elast.res = "ok"
    /\ elast.op = "get_ext" => (elast.some <=> has_ext_data(elast.tag))

\* get_ext has returned the bytes of an owned clone
C15_Witness ==
    /\ elast.op = "get_ext"
    /\ elast.some
    /\ ev.buf = "owned"
    /\ ev.id > 1
    /\ Len(elast.bytes) = MaxExt

\* C17: into_owned never fails and keeps the tag, the record and the fixed
\* payload; get_ext returns the same bytes after it as before; a borrowed
\* buffer becomes an owned one; on an owned or fixed-length Event it
\* changes nothing but the lifetime; a second into_owned changes nothing.
C17_IntoOwnedTotalIdempotent ==
    [][elast'.op = "into_owned" =>
          /\ elast'.res = "ok"
          /\ ev'.tag = ev.tag
          /\ ev'.rec = ev.rec
          /\ ev.buf = "none" => ev'.data = ev.data
          /\ get_ext(ev', lend') = get_ext(ev, lend)
          /\ ev.buf = "borrowed" => ev'.buf = "owned"
          /\ ev.buf # "borrowed" => [ev' EXCEPT !.lt = ev.lt] = ev
          /\ into_owned(ev', lend') = ev']_vars

\* into_owned has copied a borrowed buffer of two bytes
C17_Witness ==
    /\ elast.op = "into_owned"
    /\ elast.some
    /\ ev.buf = "owned"
    /\ Len(ev.data) = MaxExt

\* C20: ensure_buf is idempotent; it changes nothing of a fixed-length
\* Event; of a variable-length Event it changes at most the record's
\* length and pointer, never the tag, the rest of the record or the bytes.
C20_EnsureBufIdempotent ==
    [][elast'.op = "ensure_buf" =>
          /\ ensure_buf(ev') = [panic |-> FALSE, ev |-> ev']
          /\ ~has_ext_data(ev.tag) => ev' = ev
          /\ [ev' EXCEPT !.rec.len = ev.rec.len, !.rec.ptr = ev.rec.ptr] = ev
          /\ get_ext(ev', lend') = get_ext(ev, lend)]_vars

\* ensure_buf has pointed the record of an owned clone at the clone's bytes
C20_Witness ==
    /\ elast.op = "ensure_buf"
    /\ ev.buf = "owned"
    /\ ev.id > 1
    /\ ev.rec.ptr = BufPtr(ev)
    /\ ev.rec.len = MaxExt

\* C16 (as stated): get_data::<T>() returns Some exactly when T's has_data
\* accepts the Event's tag, and for every Event exactly one shape type
\* yields a result.
C16_ExactlyOneShapeYields ==
    /\ elast.op = "get_data" =>
          (elast.some <=> ShapeAccepts(elast.shape, elast.tag))
    /\ ev # NoEv =>
          Cardinality({k \in DataShapes : Event_get_data(ev, k).some}) = 1

\* C16 (amended): get_data::<T>() returns Some exactly when T's has_data
\* accepts the Event's tag; exactly one shape type yields a result for an
\* Event of a fixed-length tag, and none does for an Event of one of the
\* seven variable-length tags.
C16_OneShapeUnlessVariable ==
    /\ elast.op = "get_data" =>
          (elast.some <=> ShapeAccepts(elast.shape, elast.tag))
    /\ ev # NoEv =>
          Cardinality({k \in DataShapes : Event_get_data(ev, k).some})
             = IF has_ext_data(ev.tag) THEN 0 ELSE 1

\* get_data::<EvNote>() has returned None for a Sysex Event
C16_Witness ==
    /\ elast.op = "get_data"
    /\ elast.shape = NoteShape
    /\ ~elast.some
    /\ ev.tag = "Sysex"

\* C18: after any sequence of schedule_tick and schedule_real calls,
\* exactly one of get_tick() and get_time() is Some and it holds the value
\* passed to the last call, get_relative() is that call's relative
\* argument, and no mode bit of the other representation is set.
C18_ScheduleAgrees ==
    /\ elast.op = "schedule_tick" =>
          /\ get_tick(ev) = [some |-> TRUE, val |-> elast.arg]
          /\ ~get_time(ev).some
          /\ get_relative(ev) = elast.rel
          /\ BitAnd(ev.rec.flags, SND_SEQ_TIME_STAMP_REAL) = 0
    /\ elast.op = "schedule_real" =>
          /\ get_time(ev) = [some |-> TRUE, val |-> elast.arg]
          /\ ~get_tick(ev).some
          /\ get_relative(ev) = elast.rel

\* C19: every method that hands an Event's record to the native side
\* (event_output, event_output_buffer, event_output_direct, decode, and
\* control_queue with an Event) calls ensure_buf once before the native
\* call, so that the (ptr, len) the native side sees is the Event's
\* buffer.
C19_ResyncBeforeNative ==
    (/\ elast.op \in {"event_output", "event_output_buffer",
                      "event_output_direct", "decode", "control_queue"}
     /\ elast.res # "panic"
     /\ elast.some) =>
        /\ elast.syncs = 1
        /\ has_ext_data(elast.tag) =>
              /\ elast.len = BufLen(ev)
              /\ elast.ptr = BufPtr(ev)

\* C11: decode of an Event made by new_ext(Sysex, p), into an output
\* buffer of at least len(p) bytes, returns len(p) and writes the bytes p;
\* get_ext() of the Event returns p afterwards.
C11_DecodeSysex ==
    [][(/\ elast.op = "new_ext"
        /\ elast.res = "ok"
        /\ elast.tag = "Sysex"
        /\ elast'.op = "decode"
        /\ elast'.arg[1] >= Len(elast.bytes)) =>
          /\ lastDecode'.res = "Ok"
          /\ lastDecode'.ret = Len(elast.bytes)
          /\ lastDecode'.out = elast.bytes
          /\ get_ext(ev', lend') = [some |-> TRUE, bytes |-> elast.bytes]]_vars

\* a Sysex Event of two owned bytes has been decoded into two bytes
C11_Witness ==
    /\ elast.op = "decode"
    /\ elast.arg = <<MaxExt>>
    /\ ev.tag = "Sysex"
    /\ ev.buf = "owned"
    /\ ev.id = 1
    /\ lastDecode.ret = MaxExt

\* C12 (as stated): a Noteon Event with an EvNote payload that is decoded
\* to MIDI bytes, which are then encoded, comes back as a Noteon Event
\* whose EvNote payload equals the original in all five fields.
C12_NoteRoundTrip ==
    (/\ elast.op = "decode"
     /\ ev.tag = "Noteon"
     /\ lastEncode.res = "Ok"
     /\ lastEncode.some) =>
        /\ lastEncode.tag = "Noteon"
        /\ lastEncode.data = EvNote_get_data(ev)

\* C12 (amended): a Noteon Event with an EvNote payload (channel below 16,
\* note and velocity below 128) that is decoded to its three MIDI bytes,
\* which are then encoded by a coder whose buffer holds them, comes back as
\* a Noteon Event with the original channel, note and velocity, and with
\* off_velocity 0 and duration 0.
C12_NoteRoundTripThreeFields ==
    (/\ elast.op = "decode"
     /\ ev.tag = "Noteon"
     /\ lastEncode.res = "Ok"
     /\ Len(lastEncode.bytes) = 3) =>
        /\ lastEncode.some
        /\ lastEncode.consumed = 3
        /\ lastEncode.tag = "Noteon"
        /\ lastEncode.data =
              <<EvNote_get_data(ev)[1], EvNote_get_data(ev)[2],
                EvNote_get_data(ev)[3], 0, 0>>

\* the note {0, 64, 100, 64, 100} has come back as {0, 64, 100, 0, 0}
C12_Witness ==
    /\ elast.op = "decode"
    /\ ev.tag = "Noteon"
    /\ EvNote_get_data(ev) = <<0, 64, 100, 64, 100>>
    /\ lastEncode.res = "Ok"
    /\ lastEncode.data = <<0, 64, 100, 0, 0>>

\* C13: once the sender port is subscribed to the destination port, a
\* Noteon Event with an EvNote payload that has had set_subs, set_direct and
\* set_source(sender port), and is sent with event_output and then
\* drain_output, is in the queue of the handle's Input behind what was
\* sent before it; event_input returns the events of that queue in order,
\* each with the type and the payload it was sent with.
C13_Loopback ==
    [][/\ (/\ elast.op = "event_output"
           /\ elast.res = "Ok"
           /\ subs
           /\ ev.tag = "Noteon"
           /\ ev.rec.dest = <<SND_SEQ_ADDRESS_SUBSCRIBERS,
                              SND_SEQ_ADDRESS_UNKNOWN>>
           /\ ev.rec.queue = SND_SEQ_QUEUE_DIRECT
           /\ ev.rec.source[2] = SenderPort
           /\ elast'.op = "drain_output"
           /\ elast'.res = "Ok") =>
              /\ kq' # << >>
              /\ kq'[Len(kq')].type = "Noteon"
              /\ kq'[Len(kq')].data = EvNote_get_data(ev)
       /\ (/\ last'.op = "event_input"
           /\ last'.res = "Ok"
           /\ events' # events) =>
              LET item == Head(IF ibuf # << >> THEN ibuf ELSE kq) IN
              \E e \in events' \ events :
                 /\ e.tag = item.type
                 /\ Event_get_data(e, NoteShape)
                      = [some |-> TRUE, val |-> item.data]]_vars

\* the note {0, 64, 100, 64, 100} has been read back
C13_Witness ==
    /\ last.op = "event_input"
    /\ last.res = "Ok"
    /\ ev.tag = "Noteon"
    /\ \E e \in events :
          /\ e.tag = "Noteon"
          /\ EvNote_get_data(e) = <<0, 64, 100, 64, 100>>
          /\ EvNote_get_data(ev) = EvNote_get_data(e)

\* C21 (as stated): decode(bytes, event) consumes a prefix of the bytes that
\* is one MIDI message and writes that message's tag and payload into the
\* Event: afterwards get_type, get_ext and get_data of the Event describe
\* the message at the start of the bytes the call was given, and the call
\* returns the length of that message.
C21_DecodeWritesEvent ==
    (/\ elast.op = "decode"
     /\ elast.res = "Ok"
     /\ lastDecode.ret > 0) =>
        LET m == SubSeq(elast.bytes, 1, lastDecode.ret) IN
        \/ /\ IsSysexMessage(m)
           /\ ev.tag = "Sysex"
           /\ get_ext(ev, lend) = [some |-> TRUE, bytes |-> m]
        \/ /\ IsNoteOnMessage(m)
           /\ ev.tag = "Noteon"
           /\ SubSeq(Event_get_data(ev, NoteShape).val, 1, 3)
                = <<m[1] % 16, m[2], m[3]>>

\* C21 (amended): decode(buf, event) writes the MIDI message that the Event
\* describes into the byte buffer and returns the number of bytes written:
\* the bytes of the Event's buffer for a Sysex Event, and for a Noteon Event
\* its status byte (left out only when running status is enabled), note and
\* velocity.  The Event's tag and payload are as before the call, whatever
\* the buffer held.
C21_DecodeWritesBytes ==
    [][(/\ elast'.op = "decode"
        /\ elast'.res = "Ok"
        /\ dev'.nostat = dev.nostat) =>
          /\ ev'.tag = ev.tag
          /\ get_ext(ev', lend') = get_ext(ev, lend)
          /\ \A k \in DataShapes :
                Event_get_data(ev', k) = Event_get_data(ev, k)
          /\ lastDecode'.ret = Len(lastDecode'.out)
          /\ lastDecode'.ret <= Len(elast'.bytes)
          /\ ev.tag = "Sysex" => lastDecode'.out = get_ext(ev, lend).bytes
          /\ ev.tag = "Noteon" =>
                LET n == EvNote_get_data(ev) IN
                \/ lastDecode'.out = <<NOTEON_CH0 + n[1], n[2], n[3]>>
                \/ /\ lastDecode'.out = <<n[2], n[3]>>
                   /\ ~dev.nostat]_vars

\* a note on has been decoded into a buffer that held a system exclusive
\* message
C21_Witness ==
    /\ elast.op = "decode"
    /\ elast.res = "Ok"
    /\ elast.bytes = <<SYSEX, 1, SYSEX_END>>
    /\ ev.tag = "Noteon"
    /\ lastDecode.out = <<NOTEON_CH0, 64, 100>>


\* C22: an encode of a complete message that is longer than the coder's
\* buffer fails; once resize_buffer has made the buffer at least as long as
\* the message, the message encodes (all of its bytes consumed, the message
\* complete); and only resize_buffer changes the size of the buffer: no
\* encode or decode call does.
C22_BufferTooSmall ==
    [][/\ nEncodes' # nEncodes =>
             LET b == lastEncode'.bytes IN
             /\ lastEncode'.bufsize = dev.bufsize
             /\ Len(b) > dev.bufsize => lastEncode'.res = "Err"
             /\ Len(b) <= dev.bufsize =>
                   /\ lastEncode'.res = "Ok"
                   /\ lastEncode'.consumed = Len(b)
                   /\ lastEncode'.complete
       /\ dev'.bufsize # dev.bufsize =>
             /\ nEncodes' = nEncodes
             /\ lastEncode' = lastEncode
             /\ lastDecode' = lastDecode]_vars

\* a message of three bytes has been encoded by a coder that was made with
\* a buffer of two bytes and resized to three
C22_Witness ==
    /\ nEncodes = MaxEncodes
    /\ snd_midi_event_new(MinBuf).bufsize = 2
    /\ dev.bufsize = 3
    /\ lastEncode.res = "Ok"
    /\ lastEncode.bufsize = 3
    /\ lastEncode.bytes = <<SYSEX, 1, SYSEX_END>>

\* C23: enable_running_status(true) turns the native no-status option off
\* and enable_running_status(false) turns it on, and the option stays as it
\* is until the next such call.  With running status enabled, of two
\* consecutive successful conversions of a Noteon Event on one coder the
\* second writes the note and the velocity without the status byte; with
\* running status disabled every conversion of a Noteon Event writes the
\* status byte first.
C23_RunningStatus ==
    [][/\ \A enable \in BOOLEAN :
             EnableRunningStatus(enable) => (dev'.nostat <=> ~enable)
       /\ dev'.nostat # dev.nostat =>
             \E enable \in BOOLEAN : EnableRunningStatus(enable)
       /\ (/\ elast'.op = "decode"
           /\ elast'.res = "Ok"
           /\ ev.tag = "Noteon"
           /\ dev'.nostat = dev.nostat) =>
             LET n == EvNote_get_data(ev) IN
             /\ (/\ elast.op = "decode"
                 /\ elast.res = "Ok"
                 /\ ~dev.nostat) => lastDecode'.out = <<n[2], n[3]>>
             /\ dev.nostat =>
                   lastDecode'.out = <<NOTEON_CH0 + n[1], n[2], n[3]>>]_vars

\* the note {0, 64, 100} has been converted twice in a row with running
\* status enabled: the second conversion wrote two bytes
C23_Witness ==
    /\ elast.op = "decode"
    /\ elast.res = "Ok"
    /\ ev.tag = "Noteon"
    /\ ~dev.nostat
    /\ dev.lastcmd = NOTEON_CH0
    /\ lastDecode.out = <<64, 100>>

\* C24: a call of event_input, event_input_pending, set_input_buffer_size,
\* a stream poll or one of the event_output methods whose transport call
\* fails returns the error of that one attempt; it leaves the checkout flag
\* and the Inputs as they are, and what the buffers hold; a poll whose
\* pending-count query fails makes no read.
C24_ErrorsNotRetried ==
    [][/\ \A i \in inputs :
          /\ (/\ EventInput(i, FALSE)
              /\ snd_seq_event_input(ibuf, kq, FALSE).ret < 0) =>
                /\ last'.res = "Err"
                /\ UNCHANGED <<inUse, inputs, ibuf, kq, events>>
          /\ \A fetch \in BOOLEAN :
                (/\ EventInputPending(i, fetch, FALSE)
                 /\ snd_seq_event_input_pending(ibuf, kq, fetch,
                                                FALSE).ret < 0) =>
                   /\ last'.res = "Err"
                   /\ UNCHANGED <<inUse, inputs, ibuf, kq, events>>
          /\ SetInputBufferSize(i, FALSE) =>
                /\ last'.res = "Err"
                /\ UNCHANGED <<inUse, inputs, ibuf, kq, events>>
          /\ \A ok2 \in BOOLEAN :
                (/\ PollNext(i, FALSE, ok2)
                 /\ snd_seq_event_input_pending(ibuf, kq, poll_fetch,
                                                FALSE).ret < 0) =>
                   /\ last'.res = "Err"
                   /\ last'.reads = 0
                   /\ UNCHANGED <<inUse, inputs, ibuf, kq, events>>
       /\ \A junk \in Junk(ensure_buf(ev).ev) :
          /\ (EventOutput(FALSE, junk) /\ Len(obuf) >= MaxOut) =>
                /\ elast'.res = "Err"
                /\ UNCHANGED <<inUse, inputs, obuf, kq>>
          /\ (EventOutputBuffer(junk) /\ Len(obuf) >= MaxOut) =>
                /\ elast'.res = "Err"
                /\ UNCHANGED <<inUse, inputs, obuf, kq>>
          /\ EventOutputDirect(FALSE, junk) =>
                /\ elast'.res = "Err"
                /\ UNCHANGED <<inUse, inputs, obuf, kq>>]_vars

\* a poll whose pending-count query failed while an event waited in the
\* kernel, with the Input still checked out
C24_Witness ==
    /\ last.op = "poll_next"
    /\ last.res = "Err"
    /\ last.reads = 0
    /\ kq # << >>
    /\ ibuf = << >>
    /\ inUse
    /\ elast.op = "event_output"
    /\ elast.res = "Err"

\* C25: when a poll of the InputStream has reported not-ready and an event
\* is pending afterwards, the task that polled is resumed and receives an
\* event from the stream.
C25_StreamLiveness ==
    \A t \in Threads :
       (pc[t] = "parked" /\ kq # << >>)
          ~> (last.op = "poll_next" /\ last.res = "Ready")

\* C26: writing a fixed payload and reading it back gives the payload:
\* for every fixed shape D, every tag t that D accepts and every value d,
\* Event::new(t, &d).get_data::<D>() is Some(d), also when a client, port
\* or queue field exceeds 255; and get_time() after schedule_real gives
\* the Duration passed, also when its seconds exceed 32 bits.
C26_PayloadRoundTrip ==
    [][/\ \A t \in PayloadTags, k \in DataShapes, debug \in BOOLEAN :
             \A d \in Payloads(k) :
                ShapeAccepts(k, t) /\ New(t, k, d, debug) =>
                   Event_get_data(ev', k) = [some |-> TRUE, val |-> d]
       /\ \A s \in Secs, n \in Nanos :
             ScheduleReal(1, FALSE, s, n) =>
                get_time(ev') = [some |-> TRUE, val |-> <<s, n>>]]_vars

\* the values that fit the fields they are stored in
Fits(k, d) ==
    /\ k \in {AddrShape, ConnectShape} => \A i \in 1..Len(d) : d[i] < U8
    /\ k \in {QueueUnitShape, QueueU32Shape, QueueI32Shape,
              QueueTimeShape} => d[1] < U8
    /\ k = QueueTimeShape => d[2][1][1] = 0

\* the round trip of the values that fit their fields
C26_FittingRoundTrip ==
    [][/\ \A t \in PayloadTags, k \in DataShapes, debug \in BOOLEAN :
             \A d \in Payloads(k) :
                (ShapeAccepts(k, t) /\ New(t, k, d, debug) /\ Fits(k, d))
                => (Event_get_data(ev', k) = [some |-> TRUE, val |-> d])
       /\ \A s \in Secs, n \in Nanos :
             (ScheduleReal(1, FALSE, s, n) /\ s[1] = 0)
             => (get_time(ev') = [some |-> TRUE, val |-> <<s, n>>])]_vars

\* the length class the tag t stands for: variable for Sysex and Bounce,
\* var-user for UsrVar0..UsrVar4, fixed for every other tag
LengthClass(t) ==
    IF t \in {"Sysex", "Bounce"} THEN SND_SEQ_EVENT_LENGTH_VARIABLE
    ELSE IF t \in {"UsrVar0", "UsrVar1", "UsrVar2", "UsrVar3", "UsrVar4"}
    THEN SND_SEQ_EVENT_LENGTH_VARUSR
    ELSE SND_SEQ_EVENT_LENGTH_FIXED

\* C27: the length-class bits of the flags byte of an Event built with new
\* or new_ext equal the class of its tag, and every later mutation
\* (schedule_tick, schedule_real, set_priority, set_subs, set_dest,
\* set_source, set_tag, set_queue, set_direct) leaves them unchanged;
\* scheduling leaves the priority bit unchanged and set_priority leaves
\* the timestamp mode bits unchanged.
C27_LengthBitsKept ==
    [][/\ ev' # NoEv =>
             BitAnd(ev'.rec.flags, SND_SEQ_EVENT_LENGTH_MASK)
                = LengthClass(ev'.tag)
       /\ ev # NoEv /\ ev' # NoEv =>
             BitAnd(ev'.rec.flags, SND_SEQ_EVENT_LENGTH_MASK)
                = BitAnd(ev.rec.flags, SND_SEQ_EVENT_LENGTH_MASK)
       /\ elast'.op \in {"schedule_real", "schedule_tick"} =>
             BitAnd(ev'.rec.flags, SND_SEQ_PRIORITY_HIGH)
                = BitAnd(ev.rec.flags, SND_SEQ_PRIORITY_HIGH)
       /\ elast'.op = "set_priority" =>
             BitAnd(ev'.rec.flags,
                    BitOr(SND_SEQ_TIME_STAMP_MASK, SND_SEQ_TIME_MODE_MASK))
                = BitAnd(ev.rec.flags,
                         BitOr(SND_SEQ_TIME_STAMP_MASK,
                               SND_SEQ_TIME_MODE_MASK))]_vars

\* a high-priority Sysex Event scheduled in relative real time, after a
\* setter
C27_Witness ==
    /\ ev.tag = "Sysex"
    /\ elast.op = "set_tag"
    /\ get_priority(ev)
    /\ get_relative(ev)
    /\ get_time(ev).some
    /\ ev.rec.queue = SND_SEQ_QUEUE_DIRECT
    /\ ev.rec.dest = <<SND_SEQ_ADDRESS_SUBSCRIBERS, SND_SEQ_ADDRESS_UNKNOWN>>
    /\ ev.rec.flags = 23

====
